---- MODULE Spec2Model ----
(***************************************************************************)
(* Model of the reflex event dispatch core:                                *)
(*   - EventStore (src/reflex/infra/store.py): the events table and the    *)
(*     publish / subscribe-claim / ack / nack / dlq_retry statements;      *)
(*   - run_loop (src/reflex/agent/loop.py): process_event tasks, the       *)
(*     semaphore and the per-loop ScopedLocks (src/reflex/infra/locks.py). *)
(*   - the idle wait of subscribe, replay, dlq_list, rows whose payload    *)
(*     does not parse, and TriggerRegistry (src/reflex/agent/triggers.py), *)
(*     each in a specification of its own over the same state.             *)
(* Time is counted in ticks of half a second, so that the SQL expression   *)
(* base_delay * POWER(2, attempts - 1) is an integer for attempts = 0 too. *)
(* Timestamp columns are kept relative to the database clock: the model    *)
(* holds next_retry_at - NOW() (0 once it is due) and NOW() - processed_at *)
(* (up to MaxAge), and Tick moves the clock one tick forward.              *)
(***************************************************************************)
EXTENDS Integers, Sequences, FiniteSets, TLC

VARIABLES
    rows,       \* the events table (committed state): id -> row
    claimTx,    \* per subscriber: rows locked by its open claim transaction
    task,       \* per run_loop worker and event: the process_event task
    permits,    \* per run_loop worker: free slots of its asyncio.Semaphore
    locked,     \* per run_loop worker: scopes whose asyncio.Lock is held
    acks,       \* per event: number of ack statements the dispatch loops issued
    wait,       \* per subscriber: ticks spent in wait_for(notify_queue.get()), or NULL
    notifyq,    \* per subscriber: notifications in its notify_queue
    reply,      \* what the last recorded store call returned, yielded or raised
    triggers,   \* TriggerRegistry._triggers of a registry instance
    registered, \* the triggers registered and not removed, in registration order
    loop,       \* per run_loop worker: "up", or "down" once run_loop has raised
    caller,     \* per task calling a lock backend: its position and the scopes it got
    pg,         \* PostgreSQL advisory locks: per session and lock id, the hold count
    pgproc,     \* per replica: its hash seed, pool behaviour and _held_locks
    seen,       \* DedupeFilter._seen: key and age of its timestamp, in dict order
    dlog,       \* the evaluations of the DedupeFilter so far, per key
    stamps,     \* per RateLimitFilter: the ages of its _timestamps
    admits,     \* per RateLimitFilter: the ages of the evaluations it admitted
    fexpr,      \* an EventFilter built with the constructors and operators
    etypes,     \* EventRegistry._types: discriminator -> registered event class
    emeta,      \* per event: the meta (trace context) it was published with
    via,        \* per event: the event whose handler context published it, or ""
    sup,        \* the supervisor task of the dispatch loop (api/app.py lifespan)
    pubsub,     \* publish calls between commit and NOTIFY, and the listeners' queues
    orphan      \* the tasks, semaphore and locks of a run_loop call that has raised

vars == <<rows, claimTx, task, permits, locked, acks,
          wait, notifyq, reply, triggers, registered, loop,
          caller, pg, pgproc, seen, dlog, stamps, admits, fexpr,
          etypes, emeta, via, sup, pubsub, orphan>>

-----------------------------------------------------------------------------
(* Bounds of the model *)

(* ages of processed_at beyond MaxAge ticks are not told apart *)
MaxAge == 1

(* NOW(), the origin of the relative timestamps *)
Now == 0

(* Settings (src/reflex/config.py): event_max_attempts = 3 and
   event_retry_base_delay = 1.0 s, which is 2 ticks *)
MaxAttempts == 3

RetryBaseDelay == 2

(* event_retry_max_delay, set low enough for the cap to be reached within
   max_attempts attempts (the default is 60 s) *)
RetryMaxDelay == 3

(* SQL NULL / Python None for the nullable timestamp columns *)
NULL == -1

(* asyncio.wait_for(notify_queue.get(), timeout=5.0): 10 ticks *)
PollTimeout == 10

(* notifications a subscriber's notify_queue holds at most *)
MaxQueued == 1

(* triggers a registry holds at most *)
MaxTriggers == 4

(* no store call recorded yet *)
NoReply == [op |-> "none", ok |-> TRUE, out |-> << >>]

(* error column: NULL is the empty sequence, otherwise the entries that
   "; ".join(errors) concatenates *)
NoError == << >>

-----------------------------------------------------------------------------
(* Events: immutable value objects; the columns id, type, source, timestamp
   are fixed at creation. *)

EventIds == {"e1", "e2", "e3"}

EvType(e) == CASE e = "e1" -> "t.a" [] e = "e2" -> "t.b" [] OTHER -> "t.c"

EvSource(e) == CASE e = "e1" -> "s1" [] e = "e2" -> "s1" [] OTHER -> "s2"

EvTimestamp(e) == CASE e = "e1" -> 1 [] e = "e2" -> 2 [] OTHER -> 2

Subscribers == {"w1", "w2"}

Min(a, b) == IF a <= b THEN a ELSE b

RECURSIVE Pow2(_)
Pow2(n) == IF n <= 0 THEN 1 ELSE 2 * Pow2(n - 1)

-----------------------------------------------------------------------------
(* EventStore statements, as functions of the table *)

(* EventRecord as publish builds it: payload = event.model_dump_json() of an
   event of the Event union, the other columns at their defaults *)
NewRow == [status |-> "pending", attempts |-> 0, error |-> NoError,
           processed_at |-> NULL, next_retry_at |-> NULL, payload |-> "Event"]

(* an INSERT ... ON CONFLICT DO UPDATE: a second publish resets the row *)
PublishRowsUpsert(rs, e) ==
    [x \in DOMAIN rs \cup {e} |-> IF x = e THEN NewRow ELSE rs[x]]

(* publish: session.add(record); commit.  A second insert of the same primary
   key raises IntegrityError and changes nothing. *)
PublishRows(rs, e) ==
    IF e \in DOMAIN rs THEN rs
    ELSE [x \in DOMAIN rs \cup {e} |-> IF x = e THEN NewRow ELSE rs[x]]

(* publish of an event whose class is not a member of the static Event union
   (publish takes any object with id, type, source, timestamp and
   model_dump_json, such as an event registered with EventRegistry.register) *)
PublishCustomRows(rs, e) ==
    IF e \in DOMAIN rs THEN rs
    ELSE [x \in DOMAIN rs \cup {e} |->
            IF x = e THEN [NewRow EXCEPT !.payload = "custom"] ELSE rs[x]]

(* publish: session.commit() raises IntegrityError on an existing primary key *)
PublishRaises(rs, e) == e \in DOMAIN rs

(* event_types parameter: None, or a list of types *)
AnyType == [given |-> FALSE, types |-> {}]

OnlyTypes(ts) == [given |-> TRUE, types |-> ts]

(* a WHERE clause without the next_retry_at condition *)
ClaimableAnyTime(rs, t, et, e) ==
    /\ e \in DOMAIN rs
    /\ rs[e].status = "pending"
    /\ (~et.given \/ EvType(e) \in et.types)

(* a WHERE clause that also takes rows already in processing *)
ClaimableAgain(rs, t, et, e) ==
    /\ e \in DOMAIN rs
    /\ rs[e].status \in {"pending", "processing"}
    /\ (rs[e].next_retry_at = NULL \/ rs[e].next_retry_at <= t)
    /\ (~et.given \/ EvType(e) \in et.types)

(* WHERE clause of the claim sub-select *)
Claimable(rs, t, et, e) ==
    /\ e \in DOMAIN rs
    /\ rs[e].status = "pending"
    /\ (rs[e].next_retry_at = NULL \/ rs[e].next_retry_at <= t)
    /\ (~et.given \/ EvType(e) \in et.types)

(* a plain sub-select, without FOR UPDATE SKIP LOCKED *)
AvailableNoSkip(rs, t, et, lockedRows) ==
    {e \in DOMAIN rs : Claimable(rs, t, et, e)}

(* FOR UPDATE SKIP LOCKED: rows locked by another open transaction are passed over *)
Available(rs, t, et, lockedRows) ==
    {e \in DOMAIN rs : Claimable(rs, t, et, e) /\ e \notin lockedRows}

(* ORDER BY timestamp LIMIT :batch_size over the available rows: the sets the
   sub-select may return (rows of equal timestamp in any order) *)
ClaimChoices(avail, batch) ==
    {S \in SUBSET avail :
        /\ Cardinality(S) = Min(batch, Cardinality(avail))
        /\ \A e \in S, f \in avail \ S : EvTimestamp(e) <= EvTimestamp(f)}

(* a claim that only counts the attempt and leaves the status alone *)
ClaimRowsKeepStatus(rs, S) ==
    [x \in DOMAIN rs |->
        IF x \in S THEN [rs[x] EXCEPT !.attempts = @ + 1] ELSE rs[x]]

(* SET status = 'processing', attempts = attempts + 1 *)
ClaimRows(rs, S) ==
    [x \in DOMAIN rs |->
        IF x \in S
        THEN [rs[x] EXCEPT !.status = "processing", !.attempts = @ + 1]
        ELSE rs[x]]

(* ack: UPDATE events SET status = 'completed', processed_at = NOW() WHERE id = :id *)
AckRowsNoStamp(rs, t, e) ==
    IF e \in DOMAIN rs
    THEN [rs EXCEPT ![e] = [@ EXCEPT !.status = "completed"]]
    ELSE rs

AckRows(rs, t, e) ==
    IF e \in DOMAIN rs
    THEN [rs EXCEPT ![e] = [@ EXCEPT !.status = "completed", !.processed_at = t]]
    ELSE rs

(* the formula of the nack docstring: min(base_delay * 2^attempts, max_delay) *)
BackoffDelayDocstring(a) == Min(RetryBaseDelay * Pow2(a), RetryMaxDelay)

(* LEAST(:base_delay * POWER(2, attempts - 1), :max_delay), in ticks *)
BackoffDelay(a) ==
    Min(IF a >= 1 THEN RetryBaseDelay * Pow2(a - 1) ELSE RetryBaseDelay \div Pow2(1 - a),
        RetryMaxDelay)

(* a nack that dead-letters only once attempts exceeds max_attempts *)
NackRowsLateDlq(rs, t, e, err) ==
    IF e \in DOMAIN rs
    THEN [rs EXCEPT ![e] =
            [@ EXCEPT
                !.status = IF rs[e].attempts > MaxAttempts THEN "dlq" ELSE "pending",
                !.error = err,
                !.next_retry_at = IF rs[e].attempts > MaxAttempts THEN NULL
                                  ELSE t + BackoffDelay(rs[e].attempts)]]
    ELSE rs

(* nack: one UPDATE with two CASE expressions on attempts, WHERE id = :id *)
NackRowsAlwaysPending(rs, t, e, err) ==
    IF e \in DOMAIN rs
    THEN [rs EXCEPT ![e] =
            [@ EXCEPT
                !.status = "pending",
                !.error = err,
                !.next_retry_at = t + BackoffDelay(rs[e].attempts)]]
    ELSE rs

NackRows(rs, t, e, err) ==
    IF e \in DOMAIN rs
    THEN [rs EXCEPT ![e] =
            [@ EXCEPT
                !.status = IF rs[e].attempts >= MaxAttempts THEN "dlq" ELSE "pending",
                !.error = err,
                !.next_retry_at = IF rs[e].attempts >= MaxAttempts THEN NULL
                                  ELSE t + BackoffDelay(rs[e].attempts)]]
    ELSE rs

(* a dlq_retry without the status condition *)
DlqRetryRowsAnyStatus(rs, e) ==
    IF e \in DOMAIN rs
    THEN [rs EXCEPT ![e] = [@ EXCEPT !.status = "pending", !.attempts = 0,
                                     !.error = NoError]]
    ELSE rs

(* dlq_retry: UPDATE ... SET status = 'pending', attempts = 0, error = NULL
   WHERE id = :id AND status = 'dlq' *)
DlqRetryRows(rs, e) ==
    IF e \in DOMAIN rs /\ rs[e].status = "dlq"
    THEN [rs EXCEPT ![e] = [@ EXCEPT !.status = "pending", !.attempts = 0,
                                     !.error = NoError]]
    ELSE rs

(* dlq_retry: result.rowcount, the number of rows the UPDATE matched *)
DlqRetryCount(rs, e) ==
    Cardinality({x \in DOMAIN rs : x = e /\ rs[x].status = "dlq"})

(* adapter.validate_json(row.payload) returns: the payload is the JSON of a
   member of the static Event union *)
Parses(rs, e) == rs[e].payload = "Event"

(* replay: WHERE timestamp >= :start [AND timestamp <= :end]
   [AND type = ANY(:types)]; "if end", "if event_types" add the conditions *)
ReplaySelect(rs, start, end, et) ==
    {e \in DOMAIN rs :
        /\ EvTimestamp(e) >= start
        /\ (end # NULL => EvTimestamp(e) <= end)
        /\ ((et.given /\ et.types # {}) => EvType(e) \in et.types)}

(* a result set in no particular order *)
AnyOrder(S) ==
    {q \in [1..Cardinality(S) -> S] : \A i, j \in DOMAIN q : i < j => q[i] # q[j]}

(* a SELECT without the ORDER BY clause *)
Unordered(S) == AnyOrder(S)

(* ORDER BY timestamp: the orders in which the result set may be iterated *)
ByTimestamp(S) ==
    {q \in [1..Cardinality(S) -> S] :
        \A i, j \in DOMAIN q :
            i < j => q[i] # q[j] /\ EvTimestamp(q[i]) <= EvTimestamp(q[j])}

(* for row in result: yield adapter.validate_json(row.payload): the events
   yielded, and whether the iteration ended without raising *)
Yielded(rs, q) ==
    LET bad == {i \in DOMAIN q : ~Parses(rs, q[i])}
        first == CHOOSE i \in bad : \A j \in bad : i <= j
    IN IF bad = {} THEN [ok |-> TRUE, out |-> q]
       ELSE [ok |-> FALSE, out |-> SubSeq(q, 1, first - 1)]

(* dlq_list: WHERE status = 'dlq' *)
DlqSelect(rs) == {e \in DOMAIN rs : rs[e].status = "dlq"}

(* one tick later: a pending retry is one tick nearer, processed_at one tick older *)
Later(r) ==
    [r EXCEPT !.next_retry_at = IF @ = NULL THEN NULL ELSE IF @ > Now THEN @ - 1 ELSE Now,
              !.processed_at = IF @ = NULL THEN NULL ELSE Min(@ + 1, MaxAge)]

(* scripts/dlq.py retry_all: UPDATE events SET status = 'pending',
   attempts = 0, error = NULL WHERE status = 'dlq' *)
RetryAllRows(rs) ==
    [x \in DOMAIN rs |->
        IF rs[x].status = "dlq"
        THEN [rs[x] EXCEPT !.status = "pending", !.attempts = 0, !.error = NoError]
        ELSE rs[x]]

(* Rows locked by some open claim transaction *)
LockedRows == UNION {claimTx[s] : s \in Subscribers}

StatusOf(rs, e) == IF e \in DOMAIN rs THEN rs[e].status ELSE "absent"

-----------------------------------------------------------------------------
(* Trigger registry as populated at startup: kept sorted by priority,
   descending.  Filters are TypeFilters; scope_key is e.source by default. *)

HiTrigger ==
    [name |-> "hi", priority |-> 10, types |-> {"t.a", "t.b"}, scope |-> "source"]

LoTrigger ==
    [name |-> "lo", priority |-> 1, types |-> {"t.a"}, scope |-> "K"]

(* an insertion that puts a trigger ahead of those of equal priority *)
InsertBeforeEqual(sorted, t) ==
    LET k == Cardinality({i \in DOMAIN sorted : sorted[i].priority > t.priority})
    IN SubSeq(sorted, 1, k) \o <<t>> \o SubSeq(sorted, k + 1, Len(sorted))

(* list.sort is stable: an element is placed behind the elements that precede
   it in the list and whose key -priority is not greater *)
InsertByPriority(sorted, t) ==
    LET k == Cardinality({i \in DOMAIN sorted : sorted[i].priority >= t.priority})
    IN SubSeq(sorted, 1, k) \o <<t>> \o SubSeq(sorted, k + 1, Len(sorted))

(* a registry that keeps its triggers in registration order *)
SortNone(ts) == ts

(* self._triggers.sort(key=lambda t: -t.priority) *)
RECURSIVE SortByPriority(_)
SortByPriority(ts) ==
    IF ts = << >> THEN << >>
    ELSE InsertByPriority(SortByPriority(SubSeq(ts, 1, Len(ts) - 1)), ts[Len(ts)])

(* TriggerRegistry.register: append, then sort *)
RegisterTrigger(ts, t) == SortByPriority(Append(ts, t))

(* the index of the first trigger of that name, 0 if there is none *)
FirstNamed(ts, name) ==
    LET hits == {i \in DOMAIN ts : ts[i].name = name}
    IN IF hits = {} THEN 0 ELSE CHOOSE i \in hits : \A j \in hits : i <= j

(* del list[i] *)
RemoveAt(ts, i) == SubSeq(ts, 1, i - 1) \o SubSeq(ts, i + 1, Len(ts))

(* TriggerRegistry.unregister: delete the first trigger of that name *)
UnregisterTrigger(ts, name) ==
    IF FirstNamed(ts, name) = 0 THEN ts ELSE RemoveAt(ts, FirstNamed(ts, name))

(* TriggerRegistry.get: the first trigger of that name, << >> for None *)
GetTrigger(ts, name) ==
    IF FirstNamed(ts, name) = 0 THEN << >> ELSE <<ts[FirstNamed(ts, name)]>>

(* the registry the dispatch loops run with: "lo" registered, then "hi" *)
Registry == RegisterTrigger(RegisterTrigger(<< >>, LoTrigger), HiTrigger)

(* Trigger.matches -> TypeFilter.matches *)
Matches(t, e) == EvType(e) \in t.types

(* TriggerRegistry.match: [t for t in self._triggers if t.matches(event)] *)
MatchIn(ts, e) == SelectSeq(ts, LAMBDA t : Matches(t, e))

(* registry.match(event) in process_event *)
Match(e) == MatchIn(Registry, e)

(* Trigger.get_scope *)
GetScope(t, e) == IF t.scope = "source" THEN EvSource(e) ELSE t.scope

(* run_loop(store, event_types=None, max_concurrent=...): one per worker *)
SlotsW1 == 1

SlotsW2 == 2

MaxConcurrent(w) == IF w = "w1" THEN SlotsW1 ELSE SlotsW2

(* subscribe(event_types=event_types) is called with the default batch_size *)
DefaultBatchSize == 100

(* process_event task: pc is its position, i the index of the trigger it is
   at, errors the list built so far, ran the handlers invoked so far *)
IdleTask == [pc |-> "idle", i |-> 0, errors |-> << >>, ran |-> << >>]

NewTask == [IdleTask EXCEPT !.pc = "queued"]

(* a token is outstanding from the yield until ack or nack is issued for it *)
Holds(w, e) == task[w][e].pc # "idle"

(* the handler of the task is running (inside trigger.agent.run) *)
InFlight(w, e) == task[w][e].pc = "run"

CurrentTrigger(w, e) == Match(e)[task[w][e].i]

(* position after trigger i: the next trigger, or the ack/nack decision *)
Advance(t, e) ==
    [t EXCEPT !.i = @ + 1,
              !.pc = IF t.i + 1 > Len(Match(e)) THEN "settle" ELSE "next"]

-----------------------------------------------------------------------------
(* Lock backends called by tasks (src/reflex/infra/locks.py) *)

LockTasks == {"t1", "t2", "t3"}

LockScopes == {"K1", "K2"}

(* the wait_timeout a caller passes, in ticks *)
LockTimeout == 1

(* a task calling a lock backend: waiting inside acquire or not, the scope and
   wait_timeout of the call, the ticks waited, the pooled connection its
   blocked statement runs on, and the scopes for which acquire returned true
   to it and which nobody has released since *)
IdleCaller ==
    [pc |-> "idle", scope |-> "", timeout |-> NULL, waited |-> 0, conn |-> "",
     has |-> {}]

(* the caller is inside asyncio.wait_for(lock.acquire(), timeout) *)
TimedWait(c) == c.pc = "waiting" /\ c.timeout # NULL

(* acquire returned True or False to task t; release returned *)
AcquireReply(t, k, ok) == [op |-> "acquire", ok |-> ok, out |-> <<t, k>>]

ReleaseReply(t, k) == [op |-> "release", ok |-> TRUE, out |-> <<t, k>>]

(* the replicas of the service, the tasks of each and the sessions of the
   asyncpg pool of each; all sessions are sessions of one database *)
Replicas == {"r1", "r2"}

ReplicaOf(t) == IF t = "t3" THEN "r2" ELSE "r1"

PoolOf(r) == IF r = "r1" THEN {"c1", "c2"} ELSE {"c3"}

PgSessions == {"c1", "c2", "c3"}

(* str hashes are salted per interpreter process (PYTHONHASHSEED) *)
HashSeeds == {0, 1}

LockIds == HashSeeds \X LockScopes

(* the hold count up to which a session is followed *)
MaxHolds == 2

(* a replica before its interpreter has started *)
DownProc == [up |-> FALSE, seed |-> 0, reset |-> FALSE, held |-> {}]

(* PostgresLockBackend._scope_to_lock_id: hash(scope) & 0x7FFFFFFFFFFFFFFF,
   a function of the scope and of the hash seed of the process *)
ScopeToLockId(r, k) == <<pgproc[r].seed, k>>

(* pg_advisory_lock is granted when no other session holds the lock; a
   session that holds it already is granted it again *)
PgFreeFor(c, id) == \A d \in PgSessions \ {c} : pg[d][id] = 0

(* pg_advisory_lock / pg_try_advisory_lock granted: the hold count of the
   session goes up *)
PgLock(pgs, c, id) == [pgs EXCEPT ![c][id] = @ + 1]

(* pg_advisory_unlock: one hold of this session less, nothing if it has none *)
PgUnlock(pgs, c, id) == [pgs EXCEPT ![c][id] = IF @ > 0 THEN @ - 1 ELSE 0]

(* leaving "async with self._pool.acquire() as conn": the connection goes
   back to the pool.  Whether the pool resets the session on the way, which
   drops every advisory lock of the session (pg_advisory_unlock_all), depends
   on the asyncpg build and the server; it is fixed per process. *)
PoolReturn(pgs, c, r) ==
    IF pgproc[r].reset THEN [pgs EXCEPT ![c] = [id \in LockIds |-> 0]] ELSE pgs

(* no task is blocked in a statement on connection c *)
ConnFree(c) == \A u \in LockTasks : caller[u].pc = "waiting" => caller[u].conn # c

-----------------------------------------------------------------------------
(* Stateful and composite filters (src/reflex/agent/filters.py).  A timestamp
   is kept as its age, datetime.now(UTC) minus the timestamp, in ticks. *)

(* the values key_func returns *)
DedupeKeys == {"a", "b", "c", "d"}

(* DedupeFilter(key_func, window_seconds=DedupeWindow, max_keys=DedupeMaxKeys) *)
DedupeWindow == 1

DedupeMaxKeys == 2

(* one tick later; an age beyond the window stays where it is *)
Older(r, window) == [r EXCEPT !.age = Min(@ + 1, window + 1)]

(* the record of evaluations: for each key whether it was evaluated (n), how
   long ago (age), the other keys evaluated since (after), the other keys
   admitted since it was last admitted (since) and whether other keys were
   evaluated between its last two evaluations (gap) *)
NoEvaluations ==
    [k \in DedupeKeys |->
        [n |-> 0, age |-> 0, after |-> {}, since |-> {}, gap |-> 0]]

(* the record one tick later: an evaluation that leaves the window is
   forgotten, in the record of its key and in those of the others *)
AgedLog(log, window) ==
    LET out == {k \in DedupeKeys : log[k].n = 1 /\ log[k].age >= window}
    IN [k \in DedupeKeys |->
          IF log[k].n = 0 \/ k \in out THEN NoEvaluations[k]
          ELSE [log[k] EXCEPT !.age = @ + 1, !.after = @ \ out, !.since = @ \ out]]

(* an expiry that drops a key at the very end of its window *)
DedupeExpiredEarly(age, window) == age >= window

(* ts < cutoff, with cutoff = now - timedelta(seconds=window_seconds) *)
DedupeExpired(age, window) == age > window

(* if self.window_seconds is not None: del self._seen[k] for the expired k *)
DedupeClean(table, window) ==
    IF window = NULL THEN table
    ELSE SelectSeq(table, LAMBDA r : ~DedupeExpired(r.age, window))

(* key in self._seen *)
DedupeKeysOf(table) == {table[i].key : i \in DOMAIN table}

(* a duplicate that refreshes the timestamp and keeps the key where it is *)
DedupeTouchInPlace(table, k) ==
    [i \in DOMAIN table |-> IF table[i].key = k THEN [key |-> k, age |-> 0] ELSE table[i]]

(* self._seen.move_to_end(key); self._seen[key] = now *)
DedupeTouch(table, k) ==
    Append(SelectSeq(table, LAMBDA r : r.key # k), [key |-> k, age |-> 0])

(* while len(self._seen) > self.max_keys: self._seen.popitem(last=False) *)
RECURSIVE DedupeEvict(_, _)
DedupeEvict(table, maxKeys) ==
    IF Len(table) > maxKeys THEN DedupeEvict(Tail(table), maxKeys) ELSE table

(* DedupeFilter.matches for an event of key k: the result and the table left *)
DedupeMatches(table, k, window, maxKeys) ==
    LET clean == DedupeClean(table, window)
    IN IF k \in DedupeKeysOf(clean)
       THEN [ok |-> FALSE, table |-> DedupeTouch(clean, k)]
       ELSE [ok |-> TRUE,
             table |-> DedupeEvict(Append(clean, [key |-> k, age |-> 0]), maxKeys)]

(* RateLimitFilter(max_events=RateMaxEvents, window_seconds=RateWindow), two
   instances *)
RateLimiters == {"f1", "f2"}

RateMaxEvents == 2

RateWindow == 2

(* a filter that never evicts a timestamp *)
RatePruneNever(ts, window) == ts

(* self._timestamps = [ts for ts in self._timestamps if ts >= cutoff] *)
RatePrune(ts, window) == SelectSeq(ts, LAMBDA a : a <= window)

(* RateLimitFilter.matches: the result and the timestamps left *)
RateMatches(ts, maxEvents, window) ==
    IF Len(RatePrune(ts, window)) >= maxEvents
    THEN [ok |-> FALSE, ts |-> RatePrune(ts, window)]
    ELSE [ok |-> TRUE, ts |-> Append(RatePrune(ts, window), 0)]

(* TypeFilter(types=S) *)
TypeFilter(S) == [op |-> "type", types |-> S, kids |-> << >>]

(* AndFilter(filters=fs), OrFilter(filters=fs), NotFilter(filter=f) *)
AndFilter(fs) == [op |-> "and", types |-> {}, kids |-> fs]

OrFilter(fs) == [op |-> "or", types |-> {}, kids |-> fs]

NotFilter(f) == [op |-> "not", types |-> {}, kids |-> <<f>>]

(* EventFilter.__and__, __or__, __invert__: a & b, a | b, ~a *)
And2(a, b) == AndFilter(<<a, b>>)

Or2(a, b) == OrFilter(<<a, b>>)

Invert(a) == NotFilter(a)

(* an all() that wants at least one element *)
AllOfNonEmpty(bs) == bs # << >> /\ \A i \in DOMAIN bs : bs[i]

(* all(...) and any(...) over the results of the children, left to right,
   stopping at the first result that decides *)
RECURSIVE AllOf(_)
AllOf(bs) ==
    IF bs = << >> THEN TRUE
    ELSE IF ~Head(bs) THEN FALSE ELSE AllOf(Tail(bs))

RECURSIVE AnyOf(_)
AnyOf(bs) ==
    IF bs = << >> THEN FALSE
    ELSE IF Head(bs) THEN TRUE ELSE AnyOf(Tail(bs))

(* f.matches(event) *)
RECURSIVE FilterMatches(_, _)
FilterMatches(f, e) ==
    CASE f.op = "type" -> EvType(e) \in f.types
      [] f.op = "and" -> AllOf([i \in DOMAIN f.kids |-> FilterMatches(f.kids[i], e)])
      [] f.op = "or" -> AnyOf([i \in DOMAIN f.kids |-> FilterMatches(f.kids[i], e)])
      [] f.op = "not" -> ~FilterMatches(f.kids[1], e)

(* the nesting depth of a filter *)
RECURSIVE FilterDepth(_)
FilterDepth(f) ==
    IF f.kids = << >> THEN 0
    ELSE 1 + CHOOSE d \in {FilterDepth(f.kids[i]) : i \in DOMAIN f.kids} :
                \A i \in DOMAIN f.kids : FilterDepth(f.kids[i]) <= d

(* the depth up to which filters are built *)
MaxDepth == 2

-----------------------------------------------------------------------------
(* The event type registry (core/events.py) *)

(* event classes: the built-in ones registered when the module is imported,
   classes a user defines, and a class without a 'type' default *)
EventClasses ==
    {"WebSocketEvent", "TimerEvent", "ShadowEvent", "MyCustomEvent",
     "AnotherEvent", "InvalidEvent"}

Discriminators == {"ws.message", "timer.tick", "my.custom"}

(* event_class.model_fields["type"].default; "" when there is none *)
TypeDefault(c) ==
    CASE c = "WebSocketEvent" -> "ws.message"
      [] c = "ShadowEvent"    -> "ws.message"
      [] c = "TimerEvent"     -> "timer.tick"
      [] c = "MyCustomEvent"  -> "my.custom"
      [] c = "AnotherEvent"   -> "my.custom"
      [] OTHER                -> ""

NoTypes == [d \in Discriminators |-> ""]

(* the table after the @EventRegistry.register decorators of the module *)
BuiltinTypes ==
    [NoTypes EXCEPT !["ws.message"] = "WebSocketEvent", !["timer.tick"] = "TimerEvent"]

RegisterTypeLastWins(types, c) ==
    IF TypeDefault(c) = ""
    THEN [ok |-> FALSE, types |-> types]
    ELSE [ok |-> TRUE, types |-> [types EXCEPT ![TypeDefault(c)] = c]]

(* EventRegistry.register(event_class): ValueError without a type default or
   when another class holds the discriminator; the same class again is
   returned as it is *)
RegisterType(types, c) ==
    LET type_value == TypeDefault(c) IN
    IF type_value = ""
    THEN [ok |-> FALSE, types |-> types]
    ELSE IF types[type_value] # ""
         THEN IF types[type_value] # c
              THEN [ok |-> FALSE, types |-> types]
              ELSE [ok |-> TRUE, types |-> types]
         ELSE [ok |-> TRUE, types |-> [types EXCEPT ![type_value] = c]]

(* raw event data: its 'type' entry ("" when the key is missing) and the
   class whose fields the rest of the data satisfies *)
RawTypes == Discriminators \cup {"unknown.type", ""}

RawData == [type : RawTypes, shape : EventClasses]

(* EventRegistry.parse(data): the class found under data["type"] validates
   the data; ValueError when the type is missing or unknown, and
   model_validate raises when the data does not fit the class *)
ParseType(types, raw) ==
    IF raw.type = ""
    THEN [ok |-> FALSE, cls |-> ""]
    ELSE IF raw.type \notin Discriminators \/ types[raw.type] = ""
         THEN [ok |-> FALSE, cls |-> ""]
         ELSE IF raw.shape = types[raw.type]
              THEN [ok |-> TRUE, cls |-> types[raw.type]]
              ELSE [ok |-> FALSE, cls |-> ""]

-----------------------------------------------------------------------------
(* The handler context (core/context.py) *)

(* EventMeta: trace_id, correlation_id, causation_id; "" stands for None *)
NoMeta == [trace_id |-> "", correlation_id |-> "", causation_id |-> ""]

(* the meta of events that producers publish *)
ProducerMetas ==
    {[NoMeta EXCEPT !.trace_id = "tr1"],
     [NoMeta EXCEPT !.trace_id = "tr2", !.correlation_id = "co1"]}

(* the meta a handler sets itself: EventMeta() with a fresh trace id, or
   one that names a workflow of its own *)
HandlerMetas ==
    {[NoMeta EXCEPT !.trace_id = "tr3"],
     [NoMeta EXCEPT !.trace_id = "tr3", !.correlation_id = "co2"]}

(* the keyword arguments of derive_event: with or without a 'meta' entry *)
DeriveKwargs ==
    {[has_meta |-> FALSE, meta |-> NoMeta]}
        \cup {[has_meta |-> TRUE, meta |-> m] : m \in HandlerMetas}

(* AgentContext.derive_event(kwargs) for the context of event cause:
   the dict literal spreads kwargs after its "meta" entry, so a 'meta'
   entry of kwargs replaces the
   derived one *)
DeriveEvent(cause, causeMeta, kwargs) ==
    IF kwargs.has_meta
    THEN kwargs.meta
    ELSE [causation_id   |-> cause,
          correlation_id |-> IF causeMeta.correlation_id # ""
                             THEN causeMeta.correlation_id ELSE cause,
          trace_id       |-> causeMeta.trace_id]

-----------------------------------------------------------------------------
(* The supervisor of the dispatch loop (api/app.py, lifespan) *)

(* restart_delay = 1.0 and max_restart_delay = 60.0, in seconds *)
RestartDelay == 1

MaxRestartDelay == 60

(* crashes of run_loop that are counted *)
MaxCrashes == 8

(* seconds after the shutdown request that are counted *)
MaxDrain == 1

(* supervised_agent_loop right after asyncio.create_task: it is inside
   run_loop ("run"), in the restart delay ("delay") or has left the while
   loop ("stopped"), and "exited" once the process has ended; waited counts
   the seconds spent in the current delay, crashes the exceptions run_loop
   has raised, since the seconds since the shutdown request *)
NewSupervisor ==
    [pc |-> "run", restart_delay |-> RestartDelay, waited |-> 0,
     shutdown |-> FALSE, crashes |-> 0, since |-> 0]

NextRestartDelayLinear(d) == Min(d + 1, MaxRestartDelay)

(* restart_delay = min(restart_delay * 2, max_restart_delay) *)
NextRestartDelay(d) == Min(d * 2, MaxRestartDelay)

(* while not shutdown_event.is_set() *)
SupervisorContinues(s) == ~s.shutdown

-----------------------------------------------------------------------------
(* publish and LISTEN/NOTIFY (infra/store.py) *)

Publishers == {"p1", "p2"}

(* payloads kept in a notify_queue of the model *)
MaxNotes == 2

(* NOTIFY statements counted per event id *)
MaxSent == 2

(* no publish call under way, empty notify queues, nothing sent *)
NoTraffic ==
    [pending |-> [p \in Publishers |-> ""],
     queue   |-> [s \in Subscribers |-> << >>],
     sent    |-> [e \in EventIds |-> 0]]

PublishPendingAlways(rs, e) == e

(* what a publish call of event e has left to do after session.commit():
   the NOTIFY with the id as payload, unless the commit raised *)
PublishPending(rs, e) == IF PublishRaises(rs, e) THEN "" ELSE e

-----------------------------------------------------------------------------
(* A run_loop call that has raised: the process_event tasks it spawned go
   on with the semaphore and the ScopedLocks of that call *)
NoOrphans ==
    [task    |-> [e \in EventIds |-> IdleTask],
     permits |-> 0,
     locked  |-> {}]

(* restarts of run_loop that are followed *)
MaxRestarts == 1

-----------------------------------------------------------------------------
(* Initial state: empty table, no task, all slots free, nothing locked *)

Init ==
    /\ rows = [e \in {} |-> NewRow]
    /\ claimTx = [s \in Subscribers |-> {}]
    /\ task = [w \in Subscribers |-> [e \in EventIds |-> IdleTask]]
    /\ permits = [w \in Subscribers |-> MaxConcurrent(w)]
    /\ locked = [w \in Subscribers |-> {}]
    /\ acks = [e \in EventIds |-> 0]
    /\ wait = [s \in Subscribers |-> NULL]
    /\ notifyq = [s \in Subscribers |-> 0]
    /\ reply = NoReply
    /\ triggers = << >>
    /\ registered = << >>
    /\ loop = [w \in Subscribers |-> "up"]
    /\ caller = [t \in LockTasks |-> IdleCaller]
    /\ pg = [c \in PgSessions |-> [id \in LockIds |-> 0]]
    /\ pgproc = [r \in Replicas |-> DownProc]
    /\ seen = << >>
    /\ dlog = NoEvaluations
    /\ stamps = [f \in RateLimiters |-> << >>]
    /\ admits = [f \in RateLimiters |-> << >>]
    /\ fexpr = TypeFilter({"t.a"})
    /\ etypes = BuiltinTypes
    /\ emeta = [e \in EventIds |-> NoMeta]
    /\ via = [e \in EventIds |-> ""]
    /\ sup = NewSupervisor
    /\ pubsub = NoTraffic
    /\ orphan = NoOrphans

loopVars == <<task, permits, locked, acks>>

(* the state with a clock of its own besides the table and the idle wait:
   waiting lock callers and the timestamps the stateful filters keep *)
clockVars == <<caller, seen, dlog, stamps, admits>>

(* the event type registry and the trace context of the published events *)
metaVars == <<emeta, via>>

appVars == <<etypes, metaVars, sup, pubsub, orphan>>

(* the advisory locks, the replicas' lock backends and the filter at hand *)
extVars == <<pg, pgproc, fexpr, appVars>>

(* what the dispatch and store actions leave alone: the notify queues, the
   recorded reply, the registry instance and the state of the loops *)
callVars == <<notifyq, reply, triggers, registered, loop, extVars>>

sideVars == <<wait, clockVars, callVars>>

(* the clock advances: asyncio.wait_for raises TimeoutError once the timeout
   has elapsed, so time does not pass beyond it for a waiting subscriber or
   lock caller.  A timestamp older than the window it is compared with is
   kept at that age: how much older it is makes no difference to the code. *)
Tick ==
    /\ \A s \in Subscribers : wait[s] < PollTimeout
    /\ \A t \in LockTasks : caller[t].waited < caller[t].timeout \/ ~TimedWait(caller[t])
    /\ rows' = [e \in DOMAIN rows |-> Later(rows[e])]
    /\ wait' = [s \in Subscribers |-> IF wait[s] = NULL THEN NULL ELSE wait[s] + 1]
    /\ caller' = [t \in LockTasks |->
          IF TimedWait(caller[t]) THEN [caller[t] EXCEPT !.waited = @ + 1] ELSE caller[t]]
    /\ seen' = [i \in DOMAIN seen |-> Older(seen[i], DedupeWindow)]
    /\ dlog' = AgedLog(dlog, DedupeWindow)
    /\ stamps' = [f \in RateLimiters |->
          [i \in DOMAIN stamps[f] |-> Min(stamps[f][i] + 1, RateWindow + 1)]]
    /\ admits' = [f \in RateLimiters |->
          [i \in DOMAIN admits[f] |-> Min(admits[f][i] + 1, RateWindow + 1)]]
    /\ UNCHANGED <<claimTx, loopVars, callVars>>

(* EventStore.publish of a fresh event *)
Publish(e) ==
    /\ e \notin DOMAIN rows
    /\ rows' = PublishRows(rows, e)
    /\ UNCHANGED <<claimTx, loopVars>>
    /\ UNCHANGED sideVars

(* subscribe, one claim iteration, session.execute(query): the rows of the
   sub-select are locked and updated inside the open transaction *)
ClaimBegin(s, et, batch) ==
    /\ claimTx[s] = {}
    /\ \E S \in ClaimChoices(Available(rows, Now, et, LockedRows), batch) :
          /\ S # {}
          /\ claimTx' = [claimTx EXCEPT ![s] = S]
    /\ UNCHANGED <<rows, loopVars>>
    /\ UNCHANGED sideVars

(* session.commit() of the claim, then the rows are yielded to a caller of
   the store API *)
ClaimCommit(s) ==
    /\ claimTx[s] # {}
    /\ rows' = ClaimRows(rows, claimTx[s])
    /\ claimTx' = [claimTx EXCEPT ![s] = {}]
    /\ UNCHANGED loopVars
    /\ UNCHANGED sideVars

(* session.commit() of the claim inside run_loop: every yielded (event, token)
   becomes a process_event task *)
LoopCommit(w) ==
    /\ claimTx[w] # {}
    /\ \A e \in claimTx[w] : Parses(rows, e)
    /\ rows' = ClaimRows(rows, claimTx[w])
    /\ claimTx' = [claimTx EXCEPT ![w] = {}]
    /\ task' = [task EXCEPT ![w] =
                  [e \in EventIds |-> IF e \in claimTx[w] THEN NewTask ELSE task[w][e]]]
    /\ UNCHANGED <<permits, locked, acks>>
    /\ UNCHANGED sideVars

(* session.commit() of the claim inside run_loop when a row of the batch does
   not parse: "for row in rows" yields the rows that come before it (the
   RETURNING order is arbitrary), then adapter.validate_json raises out of
   subscribe and out of run_loop.  The tasks already created keep running. *)
LoopCommitRaise(w) ==
    /\ claimTx[w] # {}
    /\ \E e \in claimTx[w] : ~Parses(rows, e)
    /\ \E D \in SUBSET {e \in claimTx[w] : Parses(rows, e)} :
          task' = [task EXCEPT ![w] =
                     [e \in EventIds |-> IF e \in D THEN NewTask ELSE task[w][e]]]
    /\ rows' = ClaimRows(rows, claimTx[w])
    /\ claimTx' = [claimTx EXCEPT ![w] = {}]
    /\ loop' = [loop EXCEPT ![w] = "down"]
    /\ UNCHANGED <<permits, locked, acks, wait, clockVars, notifyq, reply, triggers,
                   registered, extVars>>

(* a semaphore that never makes a caller wait *)
SlotFreeAlways(w) == TRUE

(* the guard of asyncio.Semaphore.acquire: a slot is free *)
SlotFree(w) == permits[w] > 0

(* process_event: async with semaphore; triggers = registry.match(event) *)
Start(w, e) ==
    /\ task[w][e].pc = "queued"
    /\ SlotFree(w)
    /\ permits' = [permits EXCEPT ![w] = @ - 1]
    /\ task' = [task EXCEPT ![w][e] = Advance(@, e)]
    /\ UNCHANGED <<rows, claimTx, locked, acks>>
    /\ UNCHANGED sideVars

(* scope = trigger.get_scope(event) raises: a user scope_key is an arbitrary
   callable.  The call is outside the try block, so the exception leaves
   process_event through "async with semaphore" and ends the task. *)
ScopeRaise(w, e) ==
    /\ task[w][e].pc = "next"
    /\ CurrentTrigger(w, e).scope # "source"
    /\ task' = [task EXCEPT ![w][e].pc = "crashed"]
    /\ permits' = [permits EXCEPT ![w] = @ + 1]
    /\ UNCHANGED <<rows, claimTx, locked, acks>>
    /\ UNCHANGED sideVars

(* a lock map that never makes a caller wait *)
LockFreeAlways(w, scope) == TRUE

(* one lock for all scopes of the loop *)
LockFreeGlobal(w, scope) == locked[w] = {}

(* the guard of asyncio.Lock.acquire: the lock of the scope is free *)
LockFree(w, scope) == scope \notin locked[w]

(* async with locks.acquire(scope): the handler starts under the lock *)
Acquire(w, e) ==
    /\ task[w][e].pc = "next"
    /\ LockFree(w, GetScope(CurrentTrigger(w, e), e))
    /\ locked' = [locked EXCEPT ![w] = @ \cup {GetScope(CurrentTrigger(w, e), e)}]
    /\ task' = [task EXCEPT ![w][e].pc = "run"]
    /\ UNCHANGED <<rows, claimTx, permits, acks>>
    /\ UNCHANGED sideVars

(* a release that leaves the lock as it is *)
MemReleaseNever(held, scope) == held

(* InMemoryLockBackend.release: if lock.locked(): lock.release().  An
   asyncio.Lock has no owner, so the lock is freed whoever calls *)
MemRelease(held, scope) == held \ {scope}

(* the handler returns or raises; finally: release(scope); except: errors.append *)
HandlerEnd(w, e, ok) ==
    /\ task[w][e].pc = "run"
    /\ locked' = [locked EXCEPT ![w] = MemRelease(@, GetScope(CurrentTrigger(w, e), e))]
    /\ task' = [task EXCEPT ![w][e] =
          Advance([@ EXCEPT
                     !.ran = Append(@, [name |-> CurrentTrigger(w, e).name, ok |-> ok]),
                     !.errors = IF ok THEN @ ELSE Append(@, CurrentTrigger(w, e).name)],
                  e)]
    /\ UNCHANGED <<rows, claimTx, permits, acks>>
    /\ UNCHANGED sideVars

(* the process_event task is cancelled (the event loop cancels the tasks
   still pending when it is torn down).  CancelledError is a BaseException:
   "except Exception" does not catch it, so it leaves process_event through
   the finally of ScopedLocks.acquire, which releases the lock if the handler
   was running, and through "async with semaphore", which frees the slot if
   the task had one.  Neither ack nor nack is issued.  A handler that was
   running has been invoked and did not succeed. *)
Cancel(w, e) ==
    /\ task[w][e].pc \in {"queued", "next", "run", "settle"}
    /\ locked' = [locked EXCEPT ![w] =
          IF task[w][e].pc = "run"
          THEN MemRelease(@, GetScope(CurrentTrigger(w, e), e)) ELSE @]
    /\ permits' = [permits EXCEPT ![w] =
          IF task[w][e].pc = "queued" THEN @ ELSE @ + 1]
    /\ task' = [task EXCEPT
          ![w][e].pc = "cancelled",
          ![w][e].ran = IF task[w][e].pc = "run"
                        THEN Append(@, [name |-> CurrentTrigger(w, e).name, ok |-> FALSE])
                        ELSE @]
    /\ UNCHANGED <<rows, claimTx, acks>>
    /\ UNCHANGED sideVars

(* if errors: nack else: ack *)
Decision(t) == IF t.errors # << >> THEN "nack" ELSE "ack"

(* await store.ack(token); the task ends and frees its slot *)
TaskAck(w, e) ==
    /\ task[w][e].pc = "settle"
    /\ Decision(task[w][e]) = "ack"
    /\ e \notin LockedRows
    /\ rows' = AckRows(rows, Now, e)
    /\ acks' = [acks EXCEPT ![e] = @ + 1]
    /\ task' = [task EXCEPT ![w][e] = IdleTask]
    /\ permits' = [permits EXCEPT ![w] = @ + 1]
    /\ UNCHANGED <<claimTx, locked>>
    /\ UNCHANGED sideVars

(* await store.nack(token, "; ".join(errors)); the task ends and frees its slot *)
TaskNack(w, e) ==
    /\ task[w][e].pc = "settle"
    /\ Decision(task[w][e]) = "nack"
    /\ e \notin LockedRows
    /\ rows' = NackRows(rows, Now, e, task[w][e].errors)
    /\ task' = [task EXCEPT ![w][e] = IdleTask]
    /\ permits' = [permits EXCEPT ![w] = @ + 1]
    /\ UNCHANGED <<claimTx, locked, acks>>
    /\ UNCHANGED sideVars

(* EventStore.dlq_retry(event_id), called by an operator *)
DlqRetry(e) ==
    /\ e \notin LockedRows
    /\ rows' = DlqRetryRows(rows, e)
    /\ UNCHANGED <<claimTx, loopVars>>
    /\ UNCHANGED sideVars

(* EventStore.ack(token) called directly with any id *)
AckCall(e) ==
    /\ e \notin LockedRows
    /\ rows' = AckRows(rows, Now, e)
    /\ UNCHANGED <<claimTx, loopVars>>
    /\ UNCHANGED sideVars

(* EventStore.nack(token, error) called directly with any id *)
NackCall(e, err) ==
    /\ e \notin LockedRows
    /\ rows' = NackRows(rows, Now, e, err)
    /\ UNCHANGED <<claimTx, loopVars>>
    /\ UNCHANGED sideVars

(* EventStore.publish(event) with any id, its outcome recorded: the insert,
   or IntegrityError for an id that exists *)
PublishCall(e) ==
    /\ rows' = PublishRows(rows, e)
    /\ reply' = [op |-> "publish", ok |-> ~PublishRaises(rows, e), out |-> <<e>>]
    /\ UNCHANGED <<claimTx, loopVars, wait, clockVars, notifyq, triggers, registered, loop, extVars>>

(* EventStore.dlq_retry(event_id), its return value recorded *)
DlqRetryCall(e) ==
    /\ e \notin LockedRows
    /\ rows' = DlqRetryRows(rows, e)
    /\ reply' = [op |-> "dlq_retry", ok |-> DlqRetryCount(rows, e) > 0, out |-> <<e>>]
    /\ UNCHANGED <<claimTx, loopVars, wait, clockVars, notifyq, triggers, registered, loop, extVars>>

(* EventStore.replay(start, end, event_types) iterated to its end, the events
   it yielded recorded *)
ReplayCall(start, end, et) ==
    /\ \E q \in ByTimestamp(ReplaySelect(rows, start, end, et)) :
          reply' = [op |-> "replay", ok |-> Yielded(rows, q).ok,
                    out |-> Yielded(rows, q).out]
    /\ UNCHANGED <<rows, claimTx, loopVars, wait, clockVars, notifyq, triggers, registered, loop, extVars>>

(* EventStore.dlq_list() with the default limit, the events it returned
   recorded.  ORDER BY created_at DESC: created_at is not kept, so the rows
   come in any order. *)
DlqListCall ==
    /\ \E q \in AnyOrder(DlqSelect(rows)) :
          reply' = [op |-> "dlq_list", ok |-> Yielded(rows, q).ok,
                    out |-> IF Yielded(rows, q).ok THEN q ELSE << >>]
    /\ UNCHANGED <<rows, claimTx, loopVars, wait, clockVars, notifyq, triggers, registered, loop, extVars>>

(* TriggerRegistry.register(trigger) *)
Register(t) ==
    /\ Len(triggers) < MaxTriggers
    /\ triggers' = RegisterTrigger(triggers, t)
    /\ registered' = Append(registered, t)
    /\ UNCHANGED <<rows, claimTx, loopVars, wait, clockVars, notifyq, reply, loop, extVars>>

(* TriggerRegistry.unregister(name); the trigger it deleted is struck from
   the registration record *)
Unregister(name) ==
    /\ triggers' = UnregisterTrigger(triggers, name)
    /\ registered' =
          IF FirstNamed(triggers, name) = 0 THEN registered
          ELSE LET gone == triggers[FirstNamed(triggers, name)]
                   at == CHOOSE i \in DOMAIN registered :
                            /\ registered[i] = gone
                            /\ \A j \in DOMAIN registered : registered[j] = gone => i <= j
               IN RemoveAt(registered, at)
    /\ UNCHANGED <<rows, claimTx, loopVars, wait, clockVars, notifyq, reply, loop, extVars>>

(* TriggerRegistry.clear() *)
Clear ==
    /\ triggers' = << >>
    /\ registered' = << >>
    /\ UNCHANGED <<rows, claimTx, loopVars, wait, clockVars, notifyq, reply, loop, extVars>>

(* what a call of a lock backend leaves alone *)
notLockVars ==
    <<rows, claimTx, task, permits, acks, wait, notifyq, triggers, registered,
      loop, seen, dlog, stamps, admits, fexpr, appVars>>

(* the lock of the scope is taken for task t and acquire returns True *)
MemGrant(t, k) ==
    /\ locked' = [locked EXCEPT !["w1"] = @ \cup {k}]
    /\ caller' = [caller EXCEPT ![t] = [IdleCaller EXCEPT !.has = caller[t].has \cup {k}]]
    /\ reply' = AcquireReply(t, k, TRUE)

(* InMemoryLockBackend.acquire(scope, wait_timeout) called by task t on the
   backend of loop w1: lock.acquire() returns at once if the lock is free,
   otherwise the task waits, under asyncio.wait_for if a timeout is given *)
MemAcquire(t, k, timeout) ==
    /\ caller[t].pc = "idle"
    /\ IF LockFree("w1", k)
       THEN MemGrant(t, k)
       ELSE /\ caller' = [caller EXCEPT ![t] =
                  [@ EXCEPT !.pc = "waiting", !.scope = k, !.timeout = timeout,
                            !.waited = 0]]
            /\ UNCHANGED <<locked, reply>>
    /\ UNCHANGED <<notLockVars, pg, pgproc>>

(* the lock became free and the waiting task gets it *)
MemGranted(t) ==
    /\ caller[t].pc = "waiting"
    /\ LockFree("w1", caller[t].scope)
    /\ MemGrant(t, caller[t].scope)
    /\ UNCHANGED <<notLockVars, pg, pgproc>>

(* except TimeoutError: return False *)
MemTimeout(t) ==
    /\ TimedWait(caller[t])
    /\ caller[t].waited >= caller[t].timeout
    /\ caller' = [caller EXCEPT ![t] = [IdleCaller EXCEPT !.has = caller[t].has]]
    /\ reply' = AcquireReply(t, caller[t].scope, FALSE)
    /\ UNCHANGED <<locked, notLockVars, pg, pgproc>>

(* InMemoryLockBackend.release(scope) called by task t; the task that had
   the lock has it no more *)
MemReleaseCall(t, k) ==
    /\ caller[t].pc = "idle"
    /\ locked' = [locked EXCEPT !["w1"] = MemRelease(@, k)]
    /\ caller' = [u \in LockTasks |->
          IF k \in locked'["w1"] THEN caller[u]
          ELSE [caller[u] EXCEPT !.has = @ \ {k}]]
    /\ reply' = ReleaseReply(t, k)
    /\ UNCHANGED <<notLockVars, pg, pgproc>>

(* what a call of the PostgreSQL lock backend leaves alone *)
notPgVars == <<locked, notLockVars>>

(* a replica starts: the interpreter draws its hash seed, the pool is
   created and PostgresLockBackend starts with no held lock *)
BackendStart(r, seed, reset) ==
    /\ ~pgproc[r].up
    /\ pgproc' = [pgproc EXCEPT ![r] =
          [up |-> TRUE, seed |-> seed, reset |-> reset, held |-> {}]]
    /\ UNCHANGED <<pg, caller, reply, notPgVars>>

(* the advisory lock is granted on connection c to the statement of task t:
   _held_locks.add(lock_id), the connection goes back to the pool and acquire
   returns True *)
PgGrant(t, k, c) ==
    /\ pg[c][ScopeToLockId(ReplicaOf(t), k)] < MaxHolds
    /\ pg' = PoolReturn(PgLock(pg, c, ScopeToLockId(ReplicaOf(t), k)), c, ReplicaOf(t))
    /\ pgproc' = [pgproc EXCEPT ![ReplicaOf(t)].held =
          @ \cup {ScopeToLockId(ReplicaOf(t), k)}]
    /\ caller' = [caller EXCEPT ![t] = [IdleCaller EXCEPT !.has = {k}]]
    /\ reply' = AcquireReply(t, k, TRUE)

(* "async with locks.acquire(scope, wait_timeout)" entered by task t of a
   replica whose ScopedLocks wraps a PostgresLockBackend; the pool hands out
   connection c.  With a wait_timeout the statement is pg_try_advisory_lock,
   which answers at once; without, pg_advisory_lock, which blocks on the
   connection until the lock is granted.  On False ScopedLocks.acquire raises
   TimeoutError and the body does not run. *)
PgAcquire(t, k, c, timeout) ==
    /\ caller[t].pc = "idle"
    /\ caller[t].has = {}
    /\ pgproc[ReplicaOf(t)].up
    /\ c \in PoolOf(ReplicaOf(t))
    /\ ConnFree(c)
    /\ IF PgFreeFor(c, ScopeToLockId(ReplicaOf(t), k))
       THEN PgGrant(t, k, c)
       ELSE IF timeout # NULL
       THEN /\ pg' = PoolReturn(pg, c, ReplicaOf(t))
            /\ reply' = AcquireReply(t, k, FALSE)
            /\ UNCHANGED <<pgproc, caller>>
       ELSE /\ caller' = [caller EXCEPT ![t] =
                  [@ EXCEPT !.pc = "waiting", !.scope = k, !.conn = c]]
            /\ UNCHANGED <<pg, pgproc, reply>>
    /\ UNCHANGED notPgVars

(* the blocked pg_advisory_lock of task t is granted *)
PgGranted(t) ==
    /\ caller[t].pc = "waiting"
    /\ PgFreeFor(caller[t].conn, ScopeToLockId(ReplicaOf(t), caller[t].scope))
    /\ PgGrant(t, caller[t].scope, caller[t].conn)
    /\ UNCHANGED notPgVars

(* the body of task t ends (return, exception or cancellation) and the
   finally of ScopedLocks.acquire calls PostgresLockBackend.release(scope):
   a warning and nothing else if the lock id is not in _held_locks,
   otherwise pg_advisory_unlock on the connection c the pool hands out *)
PgRelease(t, c) ==
    /\ caller[t].pc = "idle"
    /\ caller[t].has # {}
    /\ c \in PoolOf(ReplicaOf(t))
    /\ ConnFree(c)
    /\ \E k \in caller[t].has :
          /\ IF ScopeToLockId(ReplicaOf(t), k) \in pgproc[ReplicaOf(t)].held
             THEN /\ pg' = PoolReturn(PgUnlock(pg, c, ScopeToLockId(ReplicaOf(t), k)),
                                      c, ReplicaOf(t))
                  /\ pgproc' = [pgproc EXCEPT ![ReplicaOf(t)].held =
                        @ \ {ScopeToLockId(ReplicaOf(t), k)}]
             ELSE UNCHANGED <<pg, pgproc>>
          /\ caller' = [caller EXCEPT ![t].has = {}]
          /\ reply' = ReleaseReply(t, k)
    /\ UNCHANGED notPgVars

(* what an evaluation of a filter leaves alone *)
notFilterVars ==
    <<rows, claimTx, loopVars, wait, caller, notifyq, triggers, registered, loop,
      pg, pgproc, appVars>>

(* DedupeFilter.matches(event) with key_func(event) = k, on one instance *)
DedupeMatch(k) ==
    /\ seen' = DedupeMatches(seen, k, DedupeWindow, DedupeMaxKeys).table
    /\ reply' = [op |-> "dedupe",
                 ok |-> DedupeMatches(seen, k, DedupeWindow, DedupeMaxKeys).ok,
                 out |-> <<k>>]
    /\ dlog' = [j \in DedupeKeys |->
          IF j = k
          THEN [n |-> 1, age |-> 0, after |-> {},
                since |-> IF reply'.ok THEN {} ELSE dlog[k].since,
                gap |-> IF dlog[k].n = 1 /\ dlog[k].after # {} THEN 1 ELSE 0]
          ELSE IF dlog[j].n = 0 THEN dlog[j]
          ELSE [dlog[j] EXCEPT !.after = @ \cup {k},
                               !.since = IF reply'.ok THEN @ \cup {k} ELSE @]]
    /\ UNCHANGED <<notFilterVars, stamps, admits, fexpr>>

(* RateLimitFilter.matches(event) on instance f; an admitted evaluation is
   entered in the record of the instance, which keeps those of the window *)
RateMatch(f) ==
    /\ stamps' = [stamps EXCEPT ![f] = RateMatches(@, RateMaxEvents, RateWindow).ts]
    /\ reply' = [op |-> "rate",
                 ok |-> RateMatches(stamps[f], RateMaxEvents, RateWindow).ok,
                 out |-> <<f>>]
    /\ admits' = [admits EXCEPT ![f] =
          LET inWindow == SelectSeq(@, LAMBDA a : a <= RateWindow)
          IN IF reply'.ok THEN Append(inWindow, 0) ELSE inWindow]
    /\ UNCHANGED <<notFilterVars, seen, dlog, fexpr>>

(* what building or evaluating a stateless filter leaves alone *)
notExprVars == <<notFilterVars, seen, dlog, stamps, admits>>

(* fexpr = AndFilter(filters=fs) or OrFilter(filters=fs) *)
FilterList(op, fs) ==
    /\ fexpr' = IF op = "and" THEN AndFilter(fs) ELSE OrFilter(fs)
    /\ UNCHANGED <<reply, notExprVars>>

(* fexpr = fexpr & g *)
FilterAnd(g) ==
    /\ FilterDepth(fexpr) < MaxDepth
    /\ fexpr' = And2(fexpr, g)
    /\ UNCHANGED <<reply, notExprVars>>

(* fexpr = fexpr | g *)
FilterOr(g) ==
    /\ FilterDepth(fexpr) < MaxDepth
    /\ fexpr' = Or2(fexpr, g)
    /\ UNCHANGED <<reply, notExprVars>>

(* fexpr = ~fexpr *)
FilterNot ==
    /\ FilterDepth(fexpr) < MaxDepth
    /\ fexpr' = Invert(fexpr)
    /\ UNCHANGED <<reply, notExprVars>>

(* fexpr.matches(event) *)
FilterMatch(e) ==
    /\ reply' = [op |-> "matches", ok |-> FilterMatches(fexpr, e), out |-> <<e>>]
    /\ UNCHANGED <<fexpr, notExprVars>>

(* EventStore.publish of a fresh event of a class outside the Event union *)
PublishCustom(e) ==
    /\ e \notin DOMAIN rows
    /\ rows' = PublishCustomRows(rows, e)
    /\ UNCHANGED <<claimTx, loopVars, sideVars>>

(* run_loop, one claim iteration of its subscription while it is running *)
LoopClaim(w) ==
    /\ loop[w] = "up"
    /\ ClaimBegin(w, AnyType, DefaultBatchSize)

(* EventStore.publish of a fresh event whose NOTIFY reaches the listeners in
   L and is lost for the others *)
PublishNotify(e, L) ==
    /\ e \notin DOMAIN rows
    /\ \A s \in L : notifyq[s] < MaxQueued
    /\ rows' = PublishRows(rows, e)
    /\ notifyq' = [s \in Subscribers |-> IF s \in L THEN notifyq[s] + 1 ELSE notifyq[s]]
    /\ UNCHANGED <<claimTx, loopVars, wait, clockVars, reply, triggers, registered, loop, extVars>>

(* subscribe, one claim iteration of a subscriber that is not waiting *)
PollClaim(s, et, batch) ==
    /\ wait[s] = NULL
    /\ ClaimBegin(s, et, batch)

(* subscribe, a claim iteration that returns no row: "if not rows", the
   subscriber starts to wait for a notification *)
ClaimEmpty(s, et) ==
    /\ wait[s] = NULL
    /\ claimTx[s] = {}
    /\ Available(rows, Now, et, LockedRows) = {}
    /\ wait' = [wait EXCEPT ![s] = 0]
    /\ UNCHANGED <<rows, claimTx, loopVars, clockVars, callVars>>

(* a wait for a notification without a timeout *)
WaitOutcomeNoTimeout(queued, waited) ==
    IF queued > 0 THEN "notified" ELSE "waiting"

(* asyncio.wait_for(notify_queue.get(), timeout=5.0): the queued notification,
   TimeoutError once the timeout has elapsed, or still waiting *)
WaitOutcome(queued, waited) ==
    IF queued > 0 THEN "notified"
    ELSE IF waited >= PollTimeout THEN "timeout" ELSE "waiting"

(* the wait ends, by a notification or by "except TimeoutError: pass", and
   the while loop runs the claim again *)
WaitEnd(s) ==
    /\ wait[s] # NULL
    /\ WaitOutcome(notifyq[s], wait[s]) # "waiting"
    /\ wait' = [wait EXCEPT ![s] = NULL]
    /\ notifyq' = [notifyq EXCEPT ![s] =
                      IF WaitOutcome(notifyq[s], wait[s]) = "notified" THEN @ - 1 ELSE @]
    /\ UNCHANGED <<rows, claimTx, loopVars, clockVars, reply, triggers, registered, loop, extVars>>

-----------------------------------------------------------------------------
(* Spec: run_loop workers over one store, producers and an operator.  A
   subscriber may run its claim at any time, which covers every moment at
   which a notification or the poll timeout can wake it; the idle wait and
   the notifications themselves are the subject of PollSpec. *)

Next ==
    \/ Tick
    \/ \E e \in EventIds : Publish(e)
    \/ \E w \in Subscribers : ClaimBegin(w, AnyType, DefaultBatchSize)
    \/ \E w \in Subscribers : LoopCommit(w)
    \/ \E w \in Subscribers, e \in EventIds : Start(w, e)
    \/ \E w \in Subscribers, e \in EventIds : ScopeRaise(w, e)
    \/ \E w \in Subscribers, e \in EventIds : Acquire(w, e)
    \/ \E w \in Subscribers, e \in EventIds, ok \in BOOLEAN : HandlerEnd(w, e, ok)
    \/ \E w \in Subscribers, e \in EventIds : TaskAck(w, e)
    \/ \E w \in Subscribers, e \in EventIds : TaskNack(w, e)
    \/ \E e \in EventIds : DlqRetry(e)

Spec == Init /\ [][Next]_vars

(* FairSpec: Spec under the scheduling the runtime provides.  The asyncio
   event loop runs every ready task, every handler terminates, the store
   answers and time passes (weak fairness); asyncio.Semaphore and asyncio.Lock
   wake their waiters in FIFO order, so a waiter is not overtaken forever
   (strong fairness). *)
Fairness ==
    /\ WF_vars(Tick)
    /\ \A w \in Subscribers :
          /\ WF_vars(ClaimBegin(w, AnyType, DefaultBatchSize))
          /\ WF_vars(LoopCommit(w))
          /\ \A e \in EventIds :
                /\ SF_vars(Start(w, e))
                /\ SF_vars(Acquire(w, e))
                /\ WF_vars(\E ok \in BOOLEAN : HandlerEnd(w, e, ok))
                /\ WF_vars(TaskAck(w, e))
                /\ WF_vars(TaskNack(w, e))

FairSpec == Init /\ [][Next]_vars /\ Fairness

(* StoreSpec: the store API called in any order by any caller *)

MaxBatch == 2

EventTypeArgs == {AnyType, OnlyTypes({}), OnlyTypes({"t.a"}), OnlyTypes({"t.a", "t.c"})}

ErrorArgs == {NoError, <<"boom">>}

StoreEvents == {"e1", "e2"}

StoreNext ==
    \/ Tick
    \/ \E e \in StoreEvents : Publish(e)
    \/ \E s \in Subscribers, et \in EventTypeArgs, b \in 1..MaxBatch : ClaimBegin(s, et, b)
    \/ \E s \in Subscribers : ClaimCommit(s)
    \/ \E e \in EventIds : AckCall(e)
    \/ \E e \in EventIds, err \in ErrorArgs : NackCall(e, err)
    \/ \E e \in EventIds : DlqRetry(e)

StoreSpec == Init /\ [][StoreNext]_vars

(* ApiSpec: one consumer of the store that acks or nacks the tokens it was
   given, a producer that may publish an id again, and an operator calling
   dlq_retry, dlq_list and replay; the outcome of their calls is recorded *)

ReplayStarts == {1, 2}

ReplayEnds == {NULL, 1}

ReplayTypes == {AnyType, OnlyTypes({}), OnlyTypes({"t.b"})}

ApiNext ==
    \/ Tick
    \/ \E e \in StoreEvents : PublishCall(e)
    \/ ClaimBegin("w1", AnyType, DefaultBatchSize)
    \/ ClaimCommit("w1")
    \/ \E e \in StoreEvents : StatusOf(rows, e) = "processing" /\ AckCall(e)
    \/ \E e \in StoreEvents : StatusOf(rows, e) = "processing" /\ NackCall(e, <<"boom">>)
    \/ \E e \in EventIds : DlqRetryCall(e)
    \/ \E start \in ReplayStarts, end \in ReplayEnds, et \in ReplayTypes :
          ReplayCall(start, end, et)
    \/ DlqListCall

ApiSpec == Init /\ [][ApiNext]_vars

(* PollSpec: one subscriber with its idle wait, a consumer that acks or
   nacks the tokens it was given, and a producer whose notifications may be
   lost.  The subscriber runs whenever it can and time passes (weak
   fairness); nothing is assumed about the delivery of notifications. *)

PollNext ==
    \/ Tick
    \/ \E e \in StoreEvents, L \in SUBSET {"w1"} : PublishNotify(e, L)
    \/ PollClaim("w1", AnyType, DefaultBatchSize)
    \/ ClaimCommit("w1")
    \/ ClaimEmpty("w1", AnyType)
    \/ WaitEnd("w1")
    \/ \E e \in StoreEvents : StatusOf(rows, e) = "processing" /\ AckCall(e)
    \/ \E e \in StoreEvents : StatusOf(rows, e) = "processing" /\ NackCall(e, <<"boom">>)

PollFairness ==
    /\ WF_vars(Tick)
    /\ WF_vars(PollClaim("w1", AnyType, DefaultBatchSize))
    /\ WF_vars(ClaimCommit("w1"))
    /\ WF_vars(ClaimEmpty("w1", AnyType))
    /\ WF_vars(WaitEnd("w1"))

PollSpec == Init /\ [][PollNext]_vars /\ PollFairness

(* ParseSpec: one run_loop over a store that also receives events of a
   class outside the Event union, up to the first time run_loop raises *)

ParseNext ==
    \/ Tick
    \/ \E e \in EventIds : Publish(e)
    \/ \E e \in EventIds : PublishCustom(e)
    \/ LoopClaim("w2")
    \/ LoopCommit("w2")
    \/ LoopCommitRaise("w2")
    \/ \E e \in EventIds : Start("w2", e)
    \/ \E e \in EventIds : Acquire("w2", e)
    \/ \E e \in EventIds, ok \in BOOLEAN : HandlerEnd("w2", e, ok)
    \/ \E e \in EventIds : TaskAck("w2", e)
    \/ \E e \in EventIds : TaskNack("w2", e)

ParseSpec == Init /\ [][ParseNext]_vars

(* CancelSpec: one run_loop whose process_event tasks may be cancelled at
   any of their await points *)

CancelNext ==
    \/ Tick
    \/ \E e \in EventIds : Publish(e)
    \/ LoopClaim("w2")
    \/ LoopCommit("w2")
    \/ \E e \in EventIds : Start("w2", e)
    \/ \E e \in EventIds : ScopeRaise("w2", e)
    \/ \E e \in EventIds : Acquire("w2", e)
    \/ \E e \in EventIds, ok \in BOOLEAN : HandlerEnd("w2", e, ok)
    \/ \E e \in EventIds : Cancel("w2", e)
    \/ \E e \in EventIds : TaskAck("w2", e)
    \/ \E e \in EventIds : TaskNack("w2", e)

CancelSpec == Init /\ [][CancelNext]_vars

(* LockSpec: two tasks calling acquire and release of one
   InMemoryLockBackend in any order *)

MemTasks == {"t1", "t2"}

LockNext ==
    \/ Tick
    \/ \E t \in MemTasks, k \in LockScopes, timeout \in {NULL, LockTimeout} :
          MemAcquire(t, k, timeout)
    \/ \E t \in MemTasks : MemGranted(t)
    \/ \E t \in MemTasks : MemTimeout(t)
    \/ \E t \in MemTasks, k \in LockScopes : MemReleaseCall(t, k)

LockSpec == Init /\ [][LockNext]_vars

(* PgLockSpec: the tasks of two replicas running bodies under
   ScopedLocks(PostgresLockBackend(pool)), as the LOCK_BACKEND=postgres
   setting builds it *)

(* the scope the bodies run under *)
PgScopes == {"K1"}

PgLockNext ==
    \/ \E r \in Replicas, seed \in HashSeeds, reset \in BOOLEAN :
          BackendStart(r, seed, reset)
    \/ \E t \in LockTasks, k \in PgScopes, c \in PgSessions,
          timeout \in {NULL, LockTimeout} : PgAcquire(t, k, c, timeout)
    \/ \E t \in LockTasks : PgGranted(t)
    \/ \E t \in LockTasks, c \in PgSessions : PgRelease(t, c)

PgLockSpec == Init /\ [][PgLockNext]_vars

(* DedupeSpec: one DedupeFilter instance evaluated for any sequence of keys
   at any pace *)

DedupeNext ==
    \/ Tick
    \/ \E k \in DedupeKeys : DedupeMatch(k)

DedupeSpec == Init /\ [][DedupeNext]_vars

(* RateSpec: two RateLimitFilter instances evaluated in any order at any
   pace *)

RateNext ==
    \/ Tick
    \/ \E f \in RateLimiters : RateMatch(f)

RateSpec == Init /\ [][RateNext]_vars

(* FilterSpec: filters built from TypeFilters with the constructors and the
   operators, and evaluated on the events *)

FilterLeaves == {TypeFilter({"t.a"}), TypeFilter({"t.b", "t.c"})}

ChildLists ==
    {<< >>} \cup {<<a>> : a \in FilterLeaves}
            \cup {<<a, b>> : a \in FilterLeaves, b \in FilterLeaves}

FilterNext ==
    \/ \E op \in {"and", "or"}, fs \in ChildLists : FilterList(op, fs)
    \/ \E g \in FilterLeaves : FilterAnd(g)
    \/ \E g \in FilterLeaves : FilterOr(g)
    \/ FilterNot
    \/ \E e \in EventIds : FilterMatch(e)

FilterSpec == Init /\ [][FilterNext]_vars

(* RegistrySpec: a TriggerRegistry under any sequence of register,
   unregister and clear calls *)

AlsoTrigger ==
    [name |-> "also", priority |-> 10, types |-> {"t.a"}, scope |-> "source"]

LoAgainTrigger ==
    [name |-> "lo", priority |-> 10, types |-> {"t.a", "t.c"}, scope |-> "source"]

TriggerPool == {HiTrigger, LoTrigger, AlsoTrigger, LoAgainTrigger}

TriggerNames == {"hi", "lo", "also", "none"}

RegistryNext ==
    \/ \E t \in TriggerPool : Register(t)
    \/ \E name \in TriggerNames : Unregister(name)
    \/ Clear

RegistrySpec == Init /\ [][RegistryNext]_vars

-----------------------------------------------------------------------------
(* TypeSpec: the EventRegistry under any sequence of register, parse and
   clear calls *)

notTypeVars ==
    <<rows, claimTx, loopVars, wait, clockVars, notifyq, triggers, registered,
      loop, pg, pgproc, fexpr, metaVars, sup, pubsub, orphan>>

(* EventRegistry.register(c) *)
RegisterEvent(c) ==
    /\ etypes' = RegisterType(etypes, c).types
    /\ reply' = [op |-> "register", ok |-> RegisterType(etypes, c).ok, out |-> <<c>>]
    /\ UNCHANGED notTypeVars

(* EventRegistry.parse(raw) *)
ParseEvent(raw) ==
    /\ reply' = [op |-> "parse", ok |-> ParseType(etypes, raw).ok,
                 out |-> <<raw.type, ParseType(etypes, raw).cls>>]
    /\ UNCHANGED <<etypes, notTypeVars>>

(* EventRegistry.clear() *)
ClearEvents ==
    /\ etypes' = NoTypes
    /\ reply' = [op |-> "clear", ok |-> TRUE, out |-> << >>]
    /\ UNCHANGED notTypeVars

TypeNext ==
    \/ \E c \in EventClasses : RegisterEvent(c)
    \/ \E raw \in RawData : ParseEvent(raw)
    \/ ClearEvents

TypeSpec == Init /\ [][TypeNext]_vars

-----------------------------------------------------------------------------
(* ContextSpec: the dispatch loop w1 with producers that publish events and
   handlers that publish further events through their context *)

notMetaVars ==
    <<claimTx, loopVars, wait, clockVars, notifyq, reply, triggers, registered,
      loop, pg, pgproc, fexpr, etypes, sup, pubsub, orphan>>

(* a producer publishes event e with meta m *)
ProducerPublish(e, m) ==
    /\ e \notin DOMAIN rows
    /\ rows' = PublishRows(rows, e)
    /\ emeta' = [emeta EXCEPT ![e] = m]
    /\ UNCHANGED <<via, notMetaVars>>

(* the handler running for event cause builds an event from
   ctx.derive_event(kwargs) and awaits ctx.publish(event): publish_event
   hands the event to store.publish as it is *)
ContextDerive(w, cause, e, kwargs) ==
    /\ InFlight(w, cause)
    /\ e \notin DOMAIN rows
    /\ rows' = PublishRows(rows, e)
    /\ emeta' = [emeta EXCEPT ![e] = DeriveEvent(cause, emeta[cause], kwargs)]
    /\ via' = [via EXCEPT ![e] = cause]
    /\ UNCHANGED notMetaVars

(* the handler running for event cause builds an event with meta m itself
   and awaits ctx.publish(event) *)
ContextPublish(w, cause, e, m) ==
    /\ InFlight(w, cause)
    /\ e \notin DOMAIN rows
    /\ rows' = PublishRows(rows, e)
    /\ emeta' = [emeta EXCEPT ![e] = m]
    /\ via' = [via EXCEPT ![e] = cause]
    /\ UNCHANGED notMetaVars

ContextNext ==
    \/ \E e \in EventIds, m \in ProducerMetas : ProducerPublish(e, m)
    \/ LoopClaim("w1")
    \/ LoopCommit("w1")
    \/ \E e \in EventIds : Start("w1", e)
    \/ \E e \in EventIds : Acquire("w1", e)
    \/ \E e \in EventIds, ok \in BOOLEAN : HandlerEnd("w1", e, ok)
    \/ \E cause, e \in EventIds, kwargs \in DeriveKwargs :
          ContextDerive("w1", cause, e, kwargs)
    \/ \E cause, e \in EventIds, m \in HandlerMetas :
          ContextPublish("w1", cause, e, m)
    \/ \E e \in EventIds : TaskAck("w1", e)
    \/ \E e \in EventIds : TaskNack("w1", e)

ContextSpec == Init /\ [][ContextNext]_vars

-----------------------------------------------------------------------------
(* SupervisorSpec: supervised_agent_loop with a run_loop that may raise at
   any time, a clock in seconds and the shutdown of the application *)

notSupVars ==
    <<rows, claimTx, loopVars, wait, clockVars, notifyq, reply, triggers,
      registered, loop, pg, pgproc, fexpr, etypes, metaVars, pubsub, orphan>>

(* run_loop raises an exception: the supervisor logs it and waits for
   shutdown_event under wait_for(timeout=restart_delay) *)
SupCrash ==
    /\ sup.pc = "run"
    /\ sup.crashes < MaxCrashes
    /\ sup' = [sup EXCEPT !.pc = "delay", !.waited = 0, !.crashes = @ + 1]
    /\ UNCHANGED notSupVars

(* a second of the restart delay passes *)
SupTick ==
    /\ sup.pc = "delay"
    /\ ~sup.shutdown
    /\ sup.waited < sup.restart_delay
    /\ sup' = [sup EXCEPT !.waited = @ + 1]
    /\ UNCHANGED notSupVars

(* wait_for raises TimeoutError: the delay is doubled and the while
   condition decides whether run_loop is called again *)
SupTimeout ==
    /\ sup.pc = "delay"
    /\ sup.waited = sup.restart_delay
    /\ sup' = [sup EXCEPT
                 !.restart_delay = NextRestartDelay(@),
                 !.pc = IF SupervisorContinues(sup) THEN "run" ELSE "stopped"]
    /\ UNCHANGED notSupVars

(* lifespan shutdown: shutdown_event.set() and supervisor_task.cancel() *)
SupShutdown ==
    /\ ~sup.shutdown
    /\ sup' = [sup EXCEPT !.shutdown = TRUE]
    /\ UNCHANGED notSupVars

(* the supervisor takes its step after the shutdown: CancelledError out of
   run_loop is caught and breaks, in the delay shutdown_event.wait() returns
   and breaks or the CancelledError ends the task *)
SupStop ==
    /\ sup.shutdown
    /\ sup.pc \in {"run", "delay"}
    /\ sup' = [sup EXCEPT !.pc = "stopped"]
    /\ UNCHANGED notSupVars

SupervisorNext ==
    \/ SupCrash
    \/ SupTick
    \/ SupTimeout
    \/ SupShutdown
    \/ SupStop

SupervisorSpec ==
    Init /\ [][SupervisorNext]_vars
         /\ WF_vars(SupTick) /\ WF_vars(SupTimeout) /\ WF_vars(SupStop)

-----------------------------------------------------------------------------
(* ShutdownSpec: the dispatch loop w2 under its supervisor, with the
   shutdown of the application while handlers are in flight *)

(* lifespan shutdown: shutdown_event.set(), supervisor_task.cancel() and
   await supervisor_task. The supervisor task is cancelled inside run_loop:
   the subscription ends (an open claim transaction is rolled back),
   run_loop is left and the supervisor breaks; the process_event tasks are
   tasks of their own and are not touched *)
AppShutdown(w) ==
    /\ ~sup.shutdown
    /\ sup.pc = "run"
    /\ sup' = [sup EXCEPT !.shutdown = TRUE, !.pc = "stopped"]
    /\ loop' = [loop EXCEPT ![w] = "down"]
    /\ claimTx' = [claimTx EXCEPT ![w] = {}]
    /\ UNCHANGED <<rows, loopVars, wait, clockVars, notifyq, reply, triggers,
                   registered, pg, pgproc, fexpr, etypes, metaVars, pubsub, orphan>>

(* a second passes while the lifespan closes the lock backend, the HTTP
   client, the pool and the engine *)
DrainTick ==
    /\ sup.pc = "stopped"
    /\ sup.since < MaxDrain
    /\ sup' = [sup EXCEPT !.since = @ + 1]
    /\ UNCHANGED notSupVars

(* the lifespan returns and the event loop is closed: every task that is
   still pending is cancelled where it stands *)
AppExit(w) ==
    /\ sup.pc = "stopped"
    /\ sup' = [sup EXCEPT !.pc = "exited"]
    /\ task' = [task EXCEPT ![w] =
          [e \in EventIds |->
             IF task[w][e].pc \in {"queued", "next", "run", "settle"}
             THEN [task[w][e] EXCEPT !.pc = "cancelled"] ELSE task[w][e]]]
    /\ locked' = [locked EXCEPT ![w] = {}]
    /\ permits' = [permits EXCEPT ![w] = MaxConcurrent(w)]
    /\ UNCHANGED <<rows, claimTx, acks, wait, clockVars, notifyq, reply, triggers,
                   registered, loop, pg, pgproc, fexpr, etypes, metaVars, pubsub, orphan>>

ShutdownNext ==
    \/ \E e \in EventIds : Publish(e)
    \/ LoopClaim("w2")
    \/ LoopCommit("w2")
    \/ \E e \in EventIds : Start("w2", e)
    \/ \E e \in EventIds : Acquire("w2", e)
    \/ \E e \in EventIds, ok \in BOOLEAN : HandlerEnd("w2", e, ok)
    \/ \E e \in EventIds : TaskAck("w2", e)
    \/ \E e \in EventIds : TaskNack("w2", e)
    \/ AppShutdown("w2")
    \/ DrainTick
    \/ AppExit("w2")

ShutdownSpec == Init /\ [][ShutdownNext]_vars

-----------------------------------------------------------------------------
(* NotifySpec: publish calls in two steps, the insert transaction and the
   NOTIFY, with subscribers that listen and take the payloads *)

notPubVars ==
    <<claimTx, loopVars, wait, clockVars, notifyq, triggers, registered, loop,
      pg, pgproc, fexpr, etypes, metaVars, sup, orphan>>

(* EventStore.publish(e) by publisher p up to session.commit(): the row is
   inserted, or the commit raises IntegrityError for a duplicate id and the
   call is over *)
PublishInsert(p, e) ==
    /\ pubsub.pending[p] = ""
    /\ rows' = PublishRows(rows, e)
    /\ pubsub' = [pubsub EXCEPT !.pending[p] = PublishPending(rows, e)]
    /\ reply' = [op |-> "publish", ok |-> ~PublishRaises(rows, e), out |-> <<e>>]
    /\ UNCHANGED notPubVars

(* the rest of the call: NOTIFY events, '<id>' on a pooled connection; the
   payload arrives in the notify_queue of every listening subscriber *)
PublishSend(p, L) ==
    /\ pubsub.pending[p] # ""
    /\ pubsub.sent[pubsub.pending[p]] < MaxSent
    /\ \A s \in L : Len(pubsub.queue[s]) < MaxNotes
    /\ pubsub' = [pubsub EXCEPT
          !.pending[p] = "",
          !.sent[pubsub.pending[p]] = @ + 1,
          !.queue = [s \in Subscribers |->
                       IF s \in L THEN Append(@[s], pubsub.pending[p]) ELSE @[s]]]
    /\ UNCHANGED <<rows, reply, notPubVars>>

(* subscriber s is woken: notify_queue.get() returns a payload; the reply
   records whether the row of that id is in the table at that moment *)
NotifyWake(s) ==
    /\ pubsub.queue[s] # << >>
    /\ pubsub' = [pubsub EXCEPT !.queue[s] = Tail(@)]
    /\ reply' = [op |-> "notified", ok |-> Head(pubsub.queue[s]) \in DOMAIN rows,
                 out |-> <<s, Head(pubsub.queue[s])>>]
    /\ UNCHANGED <<rows, notPubVars>>

NotifyNext ==
    \/ \E p \in Publishers, e \in EventIds : PublishInsert(p, e)
    \/ \E p \in Publishers, L \in SUBSET Subscribers : PublishSend(p, L)
    \/ \E s \in Subscribers : NotifyWake(s)

NotifySpec == Init /\ [][NotifyNext]_vars

-----------------------------------------------------------------------------
(* TokenSpec: the store under the dispatch loop w2, whose tasks pass every
   token to ack or to nack once, with publishes of new and of existing ids,
   dlq_retry and the bulk retry of the DLQ script *)

(* EventStore.publish(e), whether or not the id exists *)
PublishAny(e) ==
    /\ rows' = PublishRows(rows, e)
    /\ UNCHANGED <<claimTx, loopVars>>
    /\ UNCHANGED sideVars

(* scripts/dlq.py retry_all *)
DlqRetryAll ==
    /\ rows' = RetryAllRows(rows)
    /\ UNCHANGED <<claimTx, loopVars>>
    /\ UNCHANGED sideVars

TokenNext ==
    \/ Tick
    \/ \E e \in EventIds : PublishAny(e)
    \/ LoopClaim("w2")
    \/ LoopCommit("w2")
    \/ \E e \in EventIds : Start("w2", e)
    \/ \E e \in EventIds : Acquire("w2", e)
    \/ \E e \in EventIds, ok \in BOOLEAN : HandlerEnd("w2", e, ok)
    \/ \E e \in EventIds : TaskAck("w2", e)
    \/ \E e \in EventIds : TaskNack("w2", e)
    \/ \E e \in EventIds : DlqRetry(e)
    \/ DlqRetryAll

TokenSpec == Init /\ [][TokenNext]_vars

-----------------------------------------------------------------------------
(* RestartSpec: run_loop under the supervisor (loop w1). run_loop may raise
   while tasks it spawned are pending; after the delay the supervisor calls
   run_loop again, which creates its semaphore and its ScopedLocks anew *)

notRunVars ==
    <<wait, clockVars, notifyq, reply, triggers, registered, loop, pg, pgproc,
      fexpr, etypes, metaVars, pubsub>>

OrphanTrigger(e) == Match(e)[orphan.task[e].i]

OrphanScope(e) == GetScope(OrphanTrigger(e), e)

(* the subscription of the running run_loop claims and spawns *)
RunClaim(w) ==
    /\ sup.pc = "run"
    /\ LoopClaim(w)

RunCommit(w) ==
    /\ sup.pc = "run"
    /\ LoopCommit(w)

(* store.subscribe raises (a store error): the open claim transaction is
   rolled back and run_loop is left with its tasks pending; the supervisor
   starts the restart delay. The next run_loop call builds a new
   Semaphore(max_concurrent) and a new ScopedLocks() *)
LoopCrash(w) ==
    /\ sup.pc = "run"
    /\ sup.crashes < MaxRestarts
    /\ \A e \in EventIds : orphan.task[e].pc = "idle"
    /\ sup' = [sup EXCEPT !.pc = "delay", !.waited = 0, !.crashes = @ + 1]
    /\ claimTx' = [claimTx EXCEPT ![w] = {}]
    /\ orphan' = [task |-> task[w], permits |-> permits[w], locked |-> locked[w]]
    /\ task' = [task EXCEPT ![w] = [e \in EventIds |-> IdleTask]]
    /\ permits' = [permits EXCEPT ![w] = MaxConcurrent(w)]
    /\ locked' = [locked EXCEPT ![w] = {}]
    /\ UNCHANGED <<rows, acks, notRunVars>>

(* process_event of a task of the call that raised: async with semaphore *)
OrphanStart(e) ==
    /\ orphan.task[e].pc = "queued"
    /\ orphan.permits > 0
    /\ orphan' = [orphan EXCEPT !.permits = @ - 1, !.task[e] = Advance(@, e)]
    /\ UNCHANGED <<rows, claimTx, loopVars, sup, notRunVars>>

(* async with locks.acquire(scope) on the ScopedLocks of that call *)
OrphanAcquire(e) ==
    /\ orphan.task[e].pc = "next"
    /\ OrphanScope(e) \notin orphan.locked
    /\ orphan' = [orphan EXCEPT !.locked = @ \cup {OrphanScope(e)},
                                !.task[e].pc = "run"]
    /\ UNCHANGED <<rows, claimTx, loopVars, sup, notRunVars>>

(* the handler returns or raises and the lock is released *)
OrphanHandlerEnd(e, ok) ==
    /\ orphan.task[e].pc = "run"
    /\ orphan' = [orphan EXCEPT
          !.locked = MemRelease(@, OrphanScope(e)),
          !.task[e] = Advance([@ EXCEPT
                !.ran = Append(@, [name |-> OrphanTrigger(e).name, ok |-> ok]),
                !.errors = IF ok THEN @ ELSE Append(@, OrphanTrigger(e).name)], e)]
    /\ UNCHANGED <<rows, claimTx, loopVars, sup, notRunVars>>

(* store.ack or store.nack by the task, which then leaves the semaphore *)
OrphanSettle(e) ==
    /\ orphan.task[e].pc = "settle"
    /\ e \notin LockedRows
    /\ rows' = IF Decision(orphan.task[e]) = "ack"
               THEN AckRows(rows, Now, e)
               ELSE NackRows(rows, Now, e, orphan.task[e].errors)
    /\ acks' = [acks EXCEPT ![e] = IF Decision(orphan.task[e]) = "ack" THEN @ + 1 ELSE @]
    /\ orphan' = [orphan EXCEPT !.permits = @ + 1, !.task[e] = IdleTask]
    /\ UNCHANGED <<claimTx, task, permits, locked, sup, notRunVars>>

RestartNext ==
    \/ \E e \in EventIds : Publish(e)
    \/ RunClaim("w1")
    \/ RunCommit("w1")
    \/ \E e \in EventIds : Start("w1", e)
    \/ \E e \in EventIds : Acquire("w1", e)
    \/ \E e \in EventIds, ok \in BOOLEAN : HandlerEnd("w1", e, ok)
    \/ \E e \in EventIds : TaskAck("w1", e)
    \/ \E e \in EventIds : TaskNack("w1", e)
    \/ LoopCrash("w1")
    \/ SupTick
    \/ SupTimeout
    \/ \E e \in EventIds : OrphanStart(e)
    \/ \E e \in EventIds : OrphanAcquire(e)
    \/ \E e \in EventIds, ok \in BOOLEAN : OrphanHandlerEnd(e, ok)
    \/ \E e \in EventIds : OrphanSettle(e)

RestartSpec == Init /\ [][RestartNext]_vars

-----------------------------------------------------------------------------
(* Properties *)

Holders(e) == {w \in Subscribers : Holds(w, e) \/ e \in claimTx[w]}

(* C1: with several workers running subscribe concurrently, a row is held by
   at most one of them at a time (inside an open claim or as an outstanding
   token), and while a token is outstanding the row is in processing, so that
   only the nack of that token or a dlq_retry makes it claimable again. *)
C1_SingleClaim ==
    \A e \in EventIds :
        /\ Cardinality(Holders(e)) <= 1
        /\ \A w \in Subscribers :
              Holds(w, e) => e \in DOMAIN rows /\ rows[e].status = "processing"

(* a row nacked once is held again by w2 while w1 holds another token *)
C1_Witness ==
    \E e, f \in EventIds :
        /\ e # f
        /\ Holds("w2", e) /\ rows[e].attempts = 2
        /\ Holds("w1", f)

(* C2: for every event the number of acks issued by the dispatch loops plus
   one if it rests in dlq never exceeds one, and it is exactly one for a row
   that has reached completed or dlq: one ack for a completed row, none for
   a row in dlq. *)
C2_OneTerminalOutcome ==
    \A e \in EventIds :
        LET inDlq == IF StatusOf(rows, e) = "dlq" THEN 1 ELSE 0 IN
        /\ acks[e] + inDlq <= 1
        /\ StatusOf(rows, e) \in {"completed", "dlq"} => acks[e] + inDlq = 1
        /\ StatusOf(rows, e) = "completed" <=> acks[e] = 1

(* one event completed on a later attempt while another rests in dlq *)
C2_Witness ==
    \E e, f \in EventIds :
        /\ StatusOf(rows, e) = "completed" /\ rows[e].attempts >= 2 /\ acks[e] = 1
        /\ StatusOf(rows, f) = "dlq" /\ acks[f] = 0

(* the status transition graph of the data model *)
AllowedTransitions ==
    { <<"absent", "pending">>, <<"pending", "processing">>,
      <<"processing", "completed">>, <<"processing", "pending">>,
      <<"processing", "dlq">>, <<"dlq", "pending">> }

(* C3: under any sequence of publish, claim, ack, nack and dlq_retry calls a
   row's status changes only along the transition graph; ack or nack of a row
   that is not in processing does not change its status. *)
C3_TransitionGraph ==
    [][\A e \in EventIds :
          StatusOf(rows, e) # StatusOf(rows', e)
              => <<StatusOf(rows, e), StatusOf(rows', e)>> \in AllowedTransitions]_vars

(* the scope under which the running handler of task (w, e) was started *)
RunningScope(w, e) == GetScope(CurrentTrigger(w, e), e)

(* C4: every published event eventually reaches completed or dlq, given that
   handlers terminate, the store is available and the loops are scheduled
   fairly; no row stays in pending or processing forever. *)
C4_EventuallyTerminal ==
    \A e \in EventIds :
        (e \in DOMAIN rows) ~> (StatusOf(rows, e) \in {"completed", "dlq"})

(* C5: two handler invocations of one dispatch loop that are in flight at the
   same instant never have the same scope string, whichever events and
   triggers they belong to. *)
C5_ScopeSerial ==
    \A w \in Subscribers : \A e, f \in EventIds :
        (e # f /\ InFlight(w, e) /\ InFlight(w, f))
            => RunningScope(w, e) # RunningScope(w, f)

(* a handler is in flight for a scope while a task of another event of the
   same loop, holding a slot, waits for the lock of that scope *)
C5_Witness ==
    \E w \in Subscribers : \E e, f \in EventIds :
        /\ e # f
        /\ InFlight(w, e)
        /\ task[w][f].pc = "next"
        /\ GetScope(CurrentTrigger(w, f), f) = RunningScope(w, e)

(* C6: at any instant at most max_concurrent handler invocations of a
   dispatch loop are in flight, however many events it has claimed. *)
C6_BoundedConcurrency ==
    \A w \in Subscribers :
        Cardinality({e \in EventIds : InFlight(w, e)}) <= MaxConcurrent(w)

(* all slots of a loop are taken by running handlers and a further claimed
   event waits for a slot *)
C6_Witness ==
    \E w \in Subscribers :
        /\ Cardinality({e \in EventIds : InFlight(w, e)}) = MaxConcurrent(w)
        /\ \E e \in EventIds : task[w][e].pc = "queued"

(* the process_event task of (w, e) ends in this step *)
TaskEnds(w, e) ==
    /\ task[w][e].pc \in {"queued", "next", "run", "settle"}
    /\ task'[w][e].pc \in {"idle", "crashed"}

(* names of the matching triggers, in priority order *)
MatchNames(e) == [k \in 1..Len(Match(e)) |-> Match(e)[k].name]

(* names of the triggers whose handler raised, in execution order *)
FailedNames(t) ==
    LET failed == SelectSeq(t.ran, LAMBDA r : ~r.ok)
    IN [k \in 1..Len(failed) |-> failed[k].name]

(* names of the triggers whose handler was invoked, in execution order *)
RanNames(t) == [k \in 1..Len(t.ran) |-> t.ran[k].name]

(* C7: for every claimed event exactly one ack/nack decision is made: every
   process_event task ends by store.ack if every matching trigger (possibly
   none) ran without raising and by store.nack if at least one raised, and
   never by neither, whatever raised while the event was processed. *)
C7_OneDecision ==
    [][\A w \in Subscribers, e \in EventIds :
          TaskEnds(w, e) =>
              \/ /\ TaskAck(w, e)
                 /\ RanNames(task[w][e]) = MatchNames(e)
                 /\ FailedNames(task[w][e]) = << >>
              \/ /\ TaskNack(w, e)
                 /\ FailedNames(task[w][e]) # << >>]_vars

(* C8: when several triggers match an event and the handler of one of them
   has raised, the task ends only after every matching trigger was run, in
   priority order, and it ends by the single nack whose error lists the
   failed triggers in execution order. *)
C8_AggregatedNack ==
    [][\A w \in Subscribers, e \in EventIds :
          (TaskEnds(w, e) /\ Len(Match(e)) >= 2 /\ FailedNames(task[w][e]) # << >>)
              => /\ TaskNack(w, e)
                 /\ RanNames(task[w][e]) = MatchNames(e)
                 /\ rows'[e].error = FailedNames(task[w][e])]_vars

(* the delay the retry schedule prescribes after attempt a: base, 2*base,
   4*base, ... capped at max (half of base for a row that was never claimed) *)
ScheduledDelay(a) ==
    LET uncapped == CASE a = 0 -> RetryBaseDelay \div 2
                      [] a = 1 -> RetryBaseDelay
                      [] OTHER -> RetryBaseDelay * Pow2(a - 1)
    IN IF uncapped > RetryMaxDelay THEN RetryMaxDelay ELSE uncapped

(* C9: nack(token, error) reads the row's attempts a.  If a >= max_attempts
   the row becomes dlq with error stored and next_retry_at cleared; otherwise
   it becomes pending with error stored and
   next_retry_at = now + min(base_delay * 2^(a-1), max_delay). *)
C9_NackBackoff ==
    [][\A e \in DOMAIN rows, err \in ErrorArgs :
          NackCall(e, err) =>
              IF rows[e].attempts >= MaxAttempts
              THEN /\ rows'[e].status = "dlq"
                   /\ rows'[e].error = err
                   /\ rows'[e].next_retry_at = NULL
              ELSE /\ rows'[e].status = "pending"
                   /\ rows'[e].error = err
                   /\ rows'[e].next_retry_at - Now = ScheduledDelay(rows[e].attempts)]_vars

(* a row nacked after its second attempt waits the capped delay, while
   another row nacked after its last attempt rests in dlq *)
C9_Witness ==
    \E e, f \in DOMAIN rows :
        /\ rows[e].status = "pending" /\ rows[e].attempts = 2
        /\ rows[e].error = <<"boom">>
        /\ rows[e].next_retry_at = RetryMaxDelay /\ RetryMaxDelay < RetryBaseDelay * 2
        /\ rows[f].status = "dlq" /\ rows[f].attempts = MaxAttempts
        /\ rows[f].error = <<"boom">> /\ rows[f].next_retry_at = NULL

(* the rows a claim with these arguments may take: pending, due, of a wanted
   type and not locked by another claim *)
Eligible(et) ==
    {e \in DOMAIN rows :
        /\ rows[e].status = "pending"
        /\ rows[e].next_retry_at = NULL \/ rows[e].next_retry_at <= Now
        /\ et.given => EvType(e) \in et.types
        /\ \A s \in Subscribers : e \notin claimTx[s]}

(* C10: one claim iteration takes only rows that are pending, due
   (next_retry_at null or <= now) and of a wanted type; it takes at most
   batch_size of them, the earliest by timestamp among the eligible rows not
   locked by another claim; and a row moves to processing only through such a
   claim, so a nacked row is never claimed before its next_retry_at. *)
C10_ClaimSelection ==
    [][/\ \A s \in Subscribers, et \in EventTypeArgs, b \in 1..MaxBatch :
            ClaimBegin(s, et, b) =>
                /\ claimTx'[s] \subseteq Eligible(et)
                /\ Cardinality(claimTx'[s]) <= b
                /\ Cardinality(claimTx'[s]) = b \/ claimTx'[s] = Eligible(et)
                /\ \A e \in claimTx'[s], f \in Eligible(et) \ claimTx'[s] :
                      EvTimestamp(e) <= EvTimestamp(f)
       /\ \A e \in DOMAIN rows :
            (rows[e].status # "processing" /\ rows'[e].status = "processing")
                => /\ \E s \in Subscribers : e \in claimTx[s] /\ ClaimCommit(s)
                   /\ rows[e].status = "pending"
                   /\ rows[e].next_retry_at = NULL \/ rows[e].next_retry_at <= Now]_vars

(* a nacked row that has become due is taken by a claim of batch size 1,
   ahead of a later eligible row that the claim leaves behind *)
C10_Witness ==
    \E s \in Subscribers :
        /\ claimTx[s] = {"e1"}
        /\ rows["e1"].attempts >= 1 /\ rows["e1"].next_retry_at = Now
        /\ "e2" \in Eligible(AnyType)

(* C11: an event whose handlers keep raising is delivered max_attempts times
   and then rests in dlq.  The nack that ends delivery k of the dispatch loop
   finds attempts = k in 1..max_attempts; for k < max_attempts it leaves the
   row pending with next_retry_at = now + min(base * 2^(k-1), max), for
   k = max_attempts it leaves it in dlq with the errors of that delivery.  A
   row in dlq has been delivered exactly max_attempts times, keeps a
   non-empty error, and leaves dlq only through dlq_retry. *)
C11_BackoffToDlq ==
    [][/\ \A w \in Subscribers, e \in EventIds :
            TaskNack(w, e) =>
                /\ rows[e].attempts \in 1..MaxAttempts
                /\ rows'[e].attempts = rows[e].attempts
                /\ rows'[e].error = task[w][e].errors
                /\ IF rows[e].attempts < MaxAttempts
                   THEN /\ rows'[e].status = "pending"
                        /\ rows'[e].next_retry_at = Now + ScheduledDelay(rows[e].attempts)
                   ELSE /\ rows'[e].status = "dlq"
                        /\ rows'[e].next_retry_at = NULL
       /\ \A e \in DOMAIN rows :
            rows[e].status = "dlq" =>
                /\ rows[e].attempts = MaxAttempts
                /\ rows[e].error # NoError
                /\ rows'[e].status # "dlq" =>
                      DlqRetry(e) /\ rows'[e].status = "pending"]_vars

(* e2, whose only handler raised on each of its three deliveries, rests in
   dlq with the error of the last one *)
C11_Witness ==
    /\ StatusOf(rows, "e2") = "dlq"
    /\ rows["e2"].attempts = MaxAttempts
    /\ rows["e2"].error = <<"hi">>
    /\ rows["e2"].next_retry_at = NULL
    /\ \A w \in Subscribers : ~Holds(w, "e2")

(* C12: a row in processing is never selected by a claim, keeps its
   incremented attempts, and leaves processing only through ack or nack of
   its token: publish of its id, replay, dlq_list and dlq_retry change
   nothing of it, and nothing else moves it on. *)
C12_ProcessingFrame ==
    [][\A e \in DOMAIN rows :
          rows[e].status = "processing" =>
              /\ rows[e].attempts >= 1
              /\ rows'[e].attempts = rows[e].attempts
              /\ \A s \in Subscribers : e \notin claimTx[s] /\ e \notin claimTx'[s]
              /\ rows'[e].status # "processing" =>
                    AckCall(e) \/ NackCall(e, <<"boom">>)
              /\ rows'[e] # rows[e] =>
                    AckCall(e) \/ NackCall(e, <<"boom">>) \/ Tick]_vars

(* dlq_retry was called on a row in processing, returned false, and the row
   is still in processing with its attempt counted *)
C12_Witness ==
    \E e \in DOMAIN rows :
        /\ rows[e].status = "processing" /\ rows[e].attempts = 2
        /\ reply = [op |-> "dlq_retry", ok |-> FALSE, out |-> <<e>>]

(* C13: dlq_retry(event_id) returns true iff the row exists and is in dlq.
   Then the row, and only it, changes: it is pending with attempts = 0, error
   null and next_retry_at null, and it is eligible for the next claim.
   Otherwise the call returns false and the table is unchanged. *)
C13_DlqRetry ==
    [][\A e \in EventIds :
          DlqRetryCall(e) =>
              IF e \in DOMAIN rows /\ rows[e].status = "dlq"
              THEN /\ reply'.ok
                   /\ rows'[e].status = "pending"
                   /\ rows'[e].attempts = 0
                   /\ rows'[e].error = NoError
                   /\ rows'[e].next_retry_at = NULL
                   /\ rows'[e].processed_at = rows[e].processed_at
                   /\ \A f \in DOMAIN rows \ {e} : rows'[f] = rows[f]
                   /\ e \in Available(rows', Now, AnyType, LockedRows')
              ELSE /\ ~reply'.ok
                   /\ rows' = rows]_vars

(* dlq_retry returned true for a row, which has since been claimed again:
   it is in processing on the first attempt of its new life *)
C13_Witness ==
    \E e \in DOMAIN rows :
        /\ reply = [op |-> "dlq_retry", ok |-> TRUE, out |-> <<e>>]
        /\ rows[e].status = "processing" /\ rows[e].attempts = 1

(* C14: ack(token) sets status to completed and processed_at to now, and
   acking a row that is already completed leaves the whole row, processed_at
   included, as the first ack left it. *)
C14_AckIdempotent ==
    [][\A e \in DOMAIN rows :
          AckCall(e) =>
              /\ rows'[e].status = "completed"
              /\ rows[e].status # "completed" => rows'[e].processed_at = Now
              /\ rows[e].status = "completed" => rows'[e] = rows[e]]_vars

(* C15: replay(start, end, event_types) changes no row and no claim; it
   yields each event of the time range (and of the types, if any are given)
   once, whatever the status of its row, in ascending order of timestamp. *)
C15_ReplayReadOnly ==
    [][\A start \in ReplayStarts, end \in ReplayEnds, et \in ReplayTypes :
          ReplayCall(start, end, et) =>
              /\ rows' = rows
              /\ claimTx' = claimTx
              /\ reply'.ok
              /\ {reply'.out[i] : i \in DOMAIN reply'.out} =
                    {e \in DOMAIN rows :
                        /\ start <= EvTimestamp(e)
                        /\ end = NULL \/ EvTimestamp(e) <= end
                        /\ et.types = {} \/ EvType(e) \in et.types}
              /\ \A i, j \in DOMAIN reply'.out :
                    i < j => /\ reply'.out[i] # reply'.out[j]
                             /\ EvTimestamp(reply'.out[i]) <= EvTimestamp(reply'.out[j])]_vars

(* a replay yielded a completed event and then a later dead-lettered one *)
C15_Witness ==
    /\ reply = [op |-> "replay", ok |-> TRUE, out |-> <<"e1", "e2">>]
    /\ StatusOf(rows, "e1") = "completed"
    /\ StatusOf(rows, "e2") = "dlq"

(* C16: publish(event) with a fresh id inserts one row, pending with
   attempts 0, and leaves the other rows alone; publish(event) with an id
   that exists fails and leaves the table unchanged, whatever the status of
   the existing row. *)
C16_Publish ==
    [][\A e \in EventIds :
          PublishCall(e) =>
              IF e \in DOMAIN rows
              THEN /\ ~reply'.ok
                   /\ rows' = rows
              ELSE /\ reply'.ok
                   /\ DOMAIN rows' = DOMAIN rows \cup {e}
                   /\ rows'[e].status = "pending" /\ rows'[e].attempts = 0
                   /\ rows'[e].error = NoError /\ rows'[e].next_retry_at = NULL
                   /\ \A f \in DOMAIN rows : rows'[f] = rows[f]]_vars

(* a publish of an id whose row rests in dlq failed, another whose row is
   in processing exists beside it *)
C16_Witness ==
    \E e \in DOMAIN rows :
        /\ reply = [op |-> "publish", ok |-> FALSE, out |-> <<e>>]
        /\ rows[e].status = "dlq" /\ rows[e].attempts = MaxAttempts

(* C17: whether or not notifications arrive, a subscriber that found no
   claimable row waits at most one poll timeout before it runs the claim
   again, and every row that is pending and due is eventually claimed. *)
C17_PollProgress ==
    /\ [](\A s \in Subscribers : wait[s] <= PollTimeout)
    /\ \A e \in StoreEvents :
          (e \in Available(rows, Now, AnyType, {})) ~> (StatusOf(rows, e) = "processing")

(* the subscriber has waited the whole poll timeout without a notification
   while a row published during its wait is claimable *)
C17_Witness ==
    /\ wait["w1"] = PollTimeout
    /\ notifyq["w1"] = 0
    /\ \E e \in DOMAIN rows : rows[e].status = "pending" /\ rows[e].attempts = 0

(* C18: when a claim commits a batch holding a row whose payload does not
   parse, that row is dead-lettered at once (it does not stay in processing
   and does not return to pending), and every other row of the batch is
   still delivered to a process_event task. *)
C18_UnparseableToDlq ==
    [][\A w \in Subscribers : \A e \in claimTx[w] :
          (~Parses(rows, e) /\ claimTx'[w] = {}) =>
              /\ rows'[e].status = "dlq"
              /\ \A f \in claimTx[w] :
                    Parses(rows, f) => task'[w][f].pc = "queued"]_vars

(* the triggers of reg that accept e, ordered by priority descending and,
   among equal priorities, by their place in reg *)
ExpectedMatch(reg, e) ==
    LET acc == SelectSeq(reg, LAMBDA t : EvType(e) \in t.types)
        rank(i) == 1 + Cardinality({j \in DOMAIN acc :
                        \/ acc[j].priority > acc[i].priority
                        \/ acc[j].priority = acc[i].priority /\ j < i})
    IN [k \in DOMAIN acc |-> acc[CHOOSE i \in DOMAIN acc : rank(i) = k]]

(* C19: after any sequence of register and unregister calls, match(event)
   returns exactly the registered triggers whose filter accepts the event,
   by priority descending, equal priorities in registration order. *)
C19_MatchOrder ==
    \A e \in EventIds : MatchIn(triggers, e) = ExpectedMatch(registered, e)

(* three triggers of priority 10 registered after one of priority 1 and in
   another order than their names suggest; all four accept e1 *)
C19_Witness ==
    /\ registered = <<LoTrigger, AlsoTrigger, LoAgainTrigger, HiTrigger>>
    /\ MatchIn(triggers, "e1") = <<AlsoTrigger, LoAgainTrigger, HiTrigger, LoTrigger>>

(* C20: for one event, the handler of a matching trigger starts only when
   the handlers of all matching triggers of higher priority have run and
   finished, one after the other in priority order, none of that event is
   still in flight, and each handler that ends has released its scope lock. *)
C20_PriorityOrder ==
    [][\A w \in Subscribers, e \in EventIds :
          /\ Acquire(w, e) =>
                /\ RanNames(task[w][e]) = SubSeq(MatchNames(e), 1, task[w][e].i - 1)
                /\ \A k \in 1..(task[w][e].i - 1) :
                      Match(e)[k].priority > CurrentTrigger(w, e).priority
                /\ \A v \in Subscribers : ~InFlight(v, e)
                /\ InFlight(w, e)'
          /\ (\E ok \in BOOLEAN : HandlerEnd(w, e, ok)) =>
                /\ RunningScope(w, e) \notin locked'[w]
                /\ ~InFlight(w, e)']_vars

(* the priority-1 handler of e1 is running after its priority-10 handler
   has finished *)
C20_Witness ==
    \E w \in Subscribers :
        /\ InFlight(w, "e1")
        /\ CurrentTrigger(w, "e1").name = "lo"
        /\ RanNames(task[w]["e1"]) = <<"hi">>

(* the names of a list of triggers are pairwise distinct *)
UniqueNames(ts) ==
    \A i, j \in DOMAIN ts : ts[i].name = ts[j].name => i = j

(* C21: trigger names are unique in the registry: after any sequence of
   register, unregister and clear calls at most one registered trigger has a
   given name, and after unregister(name) has returned true get(name) returns
   nothing and match returns no trigger of that name for any event. *)
C21_UniqueNames ==
    [][/\ UniqueNames(triggers')
       /\ \A name \in TriggerNames :
             (Unregister(name) /\ FirstNamed(triggers, name) # 0) =>
                /\ GetTrigger(triggers', name) = << >>
                /\ \A e \in EventIds :
                      \A i \in DOMAIN MatchIn(triggers', e) :
                         MatchIn(triggers', e)[i].name # name]_vars

(* the scopes for which a handler of worker w is in flight *)
ScopesInFlight(w) == {RunningScope(w, e) : e \in {f \in EventIds : InFlight(w, f)}}

(* C22: the scope lock is held while the handler runs and is released on
   every exit path of the invocation (handler success, handler error, task
   cancellation): the scopes locked in a loop are exactly the scopes of its
   handlers in flight, and a task that asks for a scope with no handler in
   flight acquires it. *)
C22_LockLifetime ==
    \A w \in Subscribers :
        /\ locked[w] = ScopesInFlight(w)
        /\ \A e \in EventIds :
              (task[w][e].pc = "next"
                  /\ GetScope(CurrentTrigger(w, e), e) \notin ScopesInFlight(w))
                 => ENABLED Acquire(w, e)

(* a handler was cancelled while it ran under scope "s1", and the task of
   another event now runs its handler under the same scope *)
C22_Witness ==
    \E e, f \in EventIds :
        /\ task["w2"][e].pc = "cancelled"
        /\ task["w2"][e].i = 1
        /\ Len(task["w2"][e].ran) = 1
        /\ permits["w2"] = MaxConcurrent("w2") - 1
        /\ InFlight("w2", f)
        /\ RunningScope("w2", f) = GetScope(Match(e)[1], e)

(* the tasks other than t to which acquire(k) returned true and whose lock
   nobody has released *)
OtherHolders(t, k) == {u \in LockTasks \ {t} : k \in caller[u].has}

(* C24: release(scope) by a caller that does not hold the lock of the scope
   changes no lock state: an unlocked scope stays unlocked and a scope held
   by another task stays held by that task. *)
C24_ReleaseNotHeld ==
    [][\A t \in LockTasks, k \in LockScopes :
          (MemReleaseCall(t, k) /\ k \notin caller[t].has) =>
             /\ locked' = locked
             /\ \A u \in LockTasks : caller'[u].has = caller[u].has]_vars

(* C23: acquire without wait_timeout waits until the scope is free and
   returns true; acquire with a wait_timeout on a scope another task holds
   returns false once the timeout has elapsed, and not before; the failed
   attempt leaves every holder's lock alone; an acquire returns true only for
   a scope no other task holds. *)
C23_AcquireTimeout ==
    [][\A t \in LockTasks, k \in LockScopes :
          /\ (reply' # reply /\ reply' = AcquireReply(t, k, FALSE)) =>
                /\ TimedWait(caller[t])
                /\ caller[t].waited >= caller[t].timeout
                /\ \A u \in LockTasks : caller'[u].has = caller[u].has
          /\ (reply' # reply /\ reply' = AcquireReply(t, k, TRUE)) =>
                OtherHolders(t, k) = {}]_vars

(* C26: with the advisory-lock backend at most one body runs under a given
   scope at any instant, across the replicas and across the tasks of one
   replica, whichever pooled sessions their lock calls run on. *)
C26_ClusterSerial ==
    \A t, u \in LockTasks :
        t # u => caller[t].has \cap caller[u].has = {}

(* C25: different scopes proceed in parallel: a task that asks for the lock
   of a scope is never kept waiting by handlers running under other scopes
   only, so handlers of two events with different scopes are in flight at the
   same time. *)
C25_ScopesParallel ==
    \A w \in Subscribers : \A e \in EventIds :
        (task[w][e].pc = "next"
            /\ \A f \in EventIds \ {e} :
                  InFlight(w, f) =>
                     RunningScope(w, f) # GetScope(CurrentTrigger(w, e), e))
           => ENABLED Acquire(w, e)

(* two handlers of one loop in flight under different scopes *)
C25_Witness ==
    \E w \in Subscribers : \E e, f \in EventIds :
        /\ e # f
        /\ InFlight(w, e)
        /\ InFlight(w, f)
        /\ RunningScope(w, e) # RunningScope(w, f)

(* C27 as stated: a key evaluated again within the window of its last
   evaluation is rejected, whichever and however many evaluations for other
   keys lie in between; a key not evaluated within the window is admitted. *)
C27_DedupeAnyInterleaving ==
    [][\A k \in DedupeKeys :
          DedupeMatch(k) =>
             /\ dlog[k].n = 0 => reply'.ok
             /\ dlog[k].n = 1 => ~reply'.ok]_vars

(* C27 amended: a key evaluated again within the window of its last
   evaluation is rejected, whichever evaluations for other keys lie in
   between, provided fewer than max_keys distinct other keys were evaluated
   in between; a key not evaluated within the window is admitted. *)
C27_DedupeIdempotence ==
    [][\A k \in DedupeKeys :
          DedupeMatch(k) =>
             /\ dlog[k].n = 0 => reply'.ok
             /\ (dlog[k].n = 1 /\ Cardinality(dlog[k].after) < DedupeMaxKeys)
                   => ~reply'.ok]_vars

(* a key has just been rejected as a duplicate after evaluations for other
   keys since its previous evaluation *)
C27_Witness ==
    \E k \in DedupeKeys :
        /\ reply = [op |-> "dedupe", ok |-> FALSE, out |-> <<k>>]
        /\ dlog[k].gap = 1
        /\ dlog[k].age = 0

(* the keys of the table whose timestamp is within the window *)
LiveKeys == {k \in DedupeKeysOf(seen) : dlog[k].n = 1}

(* the keys an evaluation evicted: in the window and in the table before,
   not in the table after *)
Evicted == LiveKeys \ DedupeKeysOf(seen')

(* C28 as stated: the table holds at most max_keys keys, and the key evicted
   when a new key is admitted to a full table is the least-recently-inserted
   one: every other key of the table was admitted after it, however often
   keys were seen again as duplicates. *)
C28_EvictOldestInserted ==
    [][\A k \in DedupeKeys :
          DedupeMatch(k) =>
             /\ Len(seen') <= DedupeMaxKeys
             /\ \A j \in Evicted : \A i \in LiveKeys \ {j} : i \in dlog[j].since]_vars

(* C28 amended: the table holds at most max_keys keys, and the key evicted
   when a new key is admitted to a full table is the least-recently-seen
   one: every other key of the table was evaluated (admitted, or rejected as
   a duplicate) after the last evaluation of the evicted key. *)
C28_EvictLeastRecentlySeen ==
    [][\A k \in DedupeKeys :
          DedupeMatch(k) =>
             /\ Len(seen') <= DedupeMaxKeys
             /\ Evicted # {} =>
                   /\ reply'.ok
                   /\ Cardinality(LiveKeys) = DedupeMaxKeys
                   /\ Cardinality(Evicted) = 1
             /\ \A j \in Evicted : \A i \in LiveKeys \ {j} : i \in dlog[j].after]_vars

(* a key was evicted within its window although a key still in the table was
   admitted before it *)
C28_Witness ==
    \E j \in DedupeKeys \ DedupeKeysOf(seen) : \E i \in DedupeKeysOf(seen) :
        /\ dlog[j].n = 1
        /\ dlog[i].n = 1
        /\ j \in dlog[i].since
        /\ i \in dlog[j].after

(* the number of evaluations instance f admitted within the last
   window_seconds *)
AdmittedInWindow(f) ==
    Cardinality({i \in DOMAIN admits[f] : admits[f][i] <= RateWindow})

(* C29: a RateLimitFilter admits at most max_events evaluations in any
   rolling window: an evaluation is admitted exactly when fewer than
   max_events admitted evaluations lie in the window, so the filter rejects
   until the oldest of them has aged out; a rejected evaluation takes no
   slot; every evaluation drops the aged timestamps; the other instance is
   left alone. *)
C29_RateLimit ==
    [][\A f \in RateLimiters :
          /\ AdmittedInWindow(f)' <= RateMaxEvents
          /\ RateMatch(f) =>
                /\ reply'.ok = (AdmittedInWindow(f) < RateMaxEvents)
                /\ AdmittedInWindow(f)' = AdmittedInWindow(f) + (IF reply'.ok THEN 1 ELSE 0)
                /\ \A i \in DOMAIN stamps'[f] : stamps'[f][i] <= RateWindow
                /\ \A g \in RateLimiters \ {f} : stamps'[g] = stamps[g]]_vars

(* instance f1 has just admitted the evaluation that fills its window, the
   oldest one of which is at the very edge of the window, while instance f2
   is at its limit with other timestamps *)
C29_Witness ==
    /\ reply = [op |-> "rate", ok |-> TRUE, out |-> <<"f1">>]
    /\ Len(stamps["f1"]) = RateMaxEvents
    /\ \E i \in DOMAIN stamps["f1"] : stamps["f1"][i] = RateWindow
    /\ Len(stamps["f2"]) = RateMaxEvents
    /\ stamps["f2"] # stamps["f1"]

(* what a filter stands for: the conjunction, disjunction and negation of
   what its children stand for *)
RECURSIVE Denotes(_, _)
Denotes(f, e) ==
    CASE f.op = "type" -> EvType(e) \in f.types
      [] f.op = "and" -> \A i \in DOMAIN f.kids : Denotes(f.kids[i], e)
      [] f.op = "or" -> \E i \in DOMAIN f.kids : Denotes(f.kids[i], e)
      [] f.op = "not" -> ~Denotes(f.kids[1], e)

(* C30: for stateless children AndFilter(fs).matches(e) is the conjunction,
   OrFilter(fs).matches(e) the disjunction and NotFilter(f).matches(e) the
   negation of the children's results for every event (an empty AndFilter
   matches everything, an empty OrFilter nothing), and a & b, a | b and ~a
   build exactly these filters. *)
C30_BooleanComposition ==
    [][/\ \A e \in EventIds :
             FilterMatch(e) => reply'.ok = Denotes(fexpr, e)
       /\ \A e \in EventIds :
             /\ FilterMatches(AndFilter(<< >>), e)
             /\ ~FilterMatches(OrFilter(<< >>), e)
       /\ \A g \in FilterLeaves :
             /\ FilterAnd(g) =>
                   /\ fexpr' = AndFilter(<<fexpr, g>>)
                   /\ \A e \in EventIds :
                         FilterMatches(fexpr', e)
                            = (FilterMatches(fexpr, e) /\ FilterMatches(g, e))
             /\ FilterOr(g) =>
                   /\ fexpr' = OrFilter(<<fexpr, g>>)
                   /\ \A e \in EventIds :
                         FilterMatches(fexpr', e)
                            = (FilterMatches(fexpr, e) \/ FilterMatches(g, e))
       /\ FilterNot =>
             /\ fexpr' = NotFilter(fexpr)
             /\ \A e \in EventIds :
                   FilterMatches(fexpr', e) = ~FilterMatches(fexpr, e)]_vars

(* a filter (~a) & b, with a an OrFilter, has just matched an event *)
C30_Witness ==
    /\ fexpr.op = "and"
    /\ Len(fexpr.kids) = 2
    /\ fexpr.kids[1].op = "not"
    /\ fexpr.kids[1].kids[1].op = "or"
    /\ reply.op = "matches"
    /\ reply.ok
    /\ FilterMatches(fexpr, reply.out[1])

-----------------------------------------------------------------------------
(* C31: the event type registry holds one variant per discriminator.
   Registering a different class under a discriminator that is already
   registered fails and leaves the table unchanged; registering the same
   class again succeeds and leaves the table unchanged; parse never changes
   the table, returns an instance of the class registered for the type of
   the raw data when it returns, and fails when the type is missing or not
   registered. *)
C31_OneVariantPerType ==
    [][/\ \A c \in EventClasses :
            (reply'.op = "register" /\ reply'.out = <<c>> /\ TypeDefault(c) # "") =>
                LET held == etypes[TypeDefault(c)] IN
                /\ held \notin {"", c} => ~reply'.ok /\ etypes' = etypes
                /\ held = c => reply'.ok /\ etypes' = etypes
                /\ reply'.ok => etypes'[TypeDefault(c)] = c
                /\ \A d \in Discriminators \ {TypeDefault(c)} : etypes'[d] = etypes[d]
       /\ reply'.op = "parse" =>
            /\ etypes' = etypes
            /\ reply'.ok =>
                 /\ reply'.out[1] \in Discriminators
                 /\ reply'.out[2] # ""
                 /\ reply'.out[2] = etypes[reply'.out[1]]
            /\ (reply'.out[1] \notin Discriminators \/ etypes[reply'.out[1]] = "") =>
                 ~reply'.ok
      ]_vars

(* a second class was refused on a discriminator held by a user's class *)
C31_Witness ==
    /\ reply = [op |-> "register", ok |-> FALSE, out |-> <<"AnotherEvent">>]
    /\ etypes["my.custom"] = "MyCustomEvent"
    /\ etypes["ws.message"] = "WebSocketEvent"

-----------------------------------------------------------------------------
(* C32: every event published through the handler context of an event
   cause carries causation_id = cause.id, correlation_id = the cause's
   correlation_id if it has one and cause.id otherwise, and the cause's
   trace_id, whatever overrides the handler passes to derive_event. *)
C32_CausationChain ==
    \A e \in DOMAIN rows :
        via[e] # "" =>
            /\ emeta[e].causation_id = via[e]
            /\ emeta[e].correlation_id =
                  (IF emeta[via[e]].correlation_id # ""
                   THEN emeta[via[e]].correlation_id ELSE via[e])
            /\ emeta[e].trace_id = emeta[via[e]].trace_id

-----------------------------------------------------------------------------
(* C33: after a crash of run_loop the supervisor waits a delay that starts
   at 1 s, doubles with every crash and is at most 60 s, and then calls
   run_loop again; once shutdown is requested it never calls run_loop
   again, also when the request arrives during the delay, and it stops. *)
ExpectedDelay(n) == Min(2 ^ (n - 1), MaxRestartDelay)

SupervisorStep ==
    /\ (sup.pc # "run" /\ sup'.pc = "run") =>
          /\ sup.pc = "delay"
          /\ ~sup.shutdown
          /\ sup.waited = ExpectedDelay(sup.crashes)
    /\ (sup.pc = "delay" /\ sup'.pc = "delay") =>
          sup'.waited <= ExpectedDelay(sup.crashes)
    /\ sup.shutdown => sup'.shutdown
    /\ sup.pc = "stopped" => sup'.pc = "stopped"

C33_RestartBackoff ==
    /\ [][SupervisorStep]_vars
    /\ (sup.pc = "delay") ~> (sup.pc \in {"run", "stopped"})
    /\ sup.shutdown ~> (sup.pc = "stopped")

(* the shutdown arrived in the middle of the fourth delay *)
C33_Witness ==
    /\ sup.pc = "stopped"
    /\ sup.crashes = 4
    /\ sup.restart_delay = 8
    /\ sup.waited = 3

-----------------------------------------------------------------------------
(* C34: on shutdown the loop stops claiming and waits for the handlers in
   flight up to a drain deadline before it cancels what remains: no
   process_event task is cancelled by the shutdown before any time was
   given to it to finish and to ack or nack its event. *)
C34_DrainBeforeCancel ==
    \A e \in EventIds :
        (sup.pc = "exited" /\ task["w2"][e].pc = "cancelled") => sup.since > 0

-----------------------------------------------------------------------------
(* C35: the loop acquires a semaphore slot for an event before it spawns the
   event's task, so it takes no further events while all slots are busy:
   the process_event tasks a loop has spawned and that have not finished
   never outnumber its max_concurrent slots, which keeps the rows it has
   moved to processing and not yet acked or nacked within max_concurrent
   plus the batch it is handing out. *)
Spawned(w) == {e \in EventIds : task[w][e].pc \in {"queued", "next", "run", "settle"}}

C35_SlotBeforeSpawn ==
    \A w \in Subscribers : Cardinality(Spawned(w)) <= MaxConcurrent(w)

-----------------------------------------------------------------------------
(* C36: publish emits the notification only after the insert is committed:
   a NOTIFY that is still to be sent, a payload in a notify queue and a
   payload a subscriber is woken by all name a row that is in the table,
   and no notification is emitted for an insert that failed on a duplicate
   id, so an id is notified at most once and only when its row exists. *)
C36_NotifyAfterCommit ==
    /\ \A p \in Publishers :
          pubsub.pending[p] # "" => pubsub.pending[p] \in DOMAIN rows
    /\ \A s \in Subscribers : \A i \in 1..Len(pubsub.queue[s]) :
          pubsub.queue[s][i] \in DOMAIN rows
    /\ reply.op = "notified" => reply.ok
    /\ \A e \in EventIds :
          pubsub.sent[e] + Cardinality({p \in Publishers : pubsub.pending[p] = e})
              <= (IF e \in DOMAIN rows THEN 1 ELSE 0)

(* a second publish of e1 failed after e1 was inserted and notified *)
C36_Witness ==
    /\ reply = [op |-> "publish", ok |-> FALSE, out |-> <<"e1">>]
    /\ pubsub.sent["e1"] = 1
    /\ pubsub.queue["w1"] = <<"e1">>
    /\ \A p \in Publishers : pubsub.pending[p] = ""

-----------------------------------------------------------------------------
(* C37: with max_attempts >= 1 and every token passed to ack or nack once,
   every row has 0 <= attempts <= max_attempts in every reachable state;
   attempts changes only by a claim, which adds exactly one, and by a DLQ
   retry, which resets it to 0; and a row whose attempts has reached
   max_attempts is never returned to pending by nack. *)
AttemptsStep(e) ==
    /\ rows'[e].attempts # rows[e].attempts =>
          \/ /\ rows[e].status = "pending" /\ rows'[e].status = "processing"
             /\ rows'[e].attempts = rows[e].attempts + 1
          \/ /\ rows[e].status = "dlq" /\ rows'[e].status = "pending"
             /\ rows'[e].attempts = 0
    /\ (rows[e].status = "pending" /\ rows'[e].status = "processing") =>
          rows'[e].attempts = rows[e].attempts + 1
    /\ (rows[e].status = "processing" /\ rows[e].attempts >= MaxAttempts) =>
          rows'[e].status # "pending"

C37_AttemptsBounded ==
    /\ [](\A e \in DOMAIN rows : rows[e].attempts \in 0..MaxAttempts)
    /\ [][\A e \in DOMAIN rows : AttemptsStep(e)]_vars

(* a row went to the DLQ at max_attempts, another was nacked just below it *)
C37_Witness ==
    /\ "e1" \in DOMAIN rows /\ "e2" \in DOMAIN rows
    /\ rows["e1"].status = "dlq" /\ rows["e1"].attempts = MaxAttempts
    /\ rows["e2"].status = "pending" /\ rows["e2"].attempts = MaxAttempts - 1
    /\ rows["e2"].error # NoError

-----------------------------------------------------------------------------
(* C38: when every claimed token is passed to ack or nack once, completed
   is absorbing and processed_at is set exactly for completed rows: no
   claim, nack, dlq_retry, bulk DLQ retry or publish changes the status of
   a completed row, and pending, processing and dlq rows have a null
   processed_at. *)
C38_CompletedAbsorbing ==
    /\ [](\A e \in DOMAIN rows :
            (rows[e].processed_at # NULL) <=> (rows[e].status = "completed"))
    /\ [][\A e \in DOMAIN rows :
            rows[e].status = "completed" => rows'[e].status = "completed"]_vars

(* one row completed some time ago, one in the DLQ, one being processed *)
C38_Witness ==
    /\ DOMAIN rows = EventIds
    /\ rows["e1"].status = "completed" /\ rows["e1"].processed_at = MaxAge
    /\ rows["e2"].status = "dlq" /\ rows["e2"].processed_at = NULL
    /\ rows["e3"].status = "processing" /\ rows["e3"].processed_at = NULL

-----------------------------------------------------------------------------
(* C39: the max_concurrent bound and the per-scope serialization hold across
   a supervisor restart: the handlers of the tasks left by the run_loop call
   that raised and those of the new call together are never more than
   max_concurrent in flight and never run under the same scope at once. *)
OrphansInFlight == {e \in EventIds : orphan.task[e].pc = "run"}

C39_BoundsAcrossRestart ==
    /\ Cardinality({e \in EventIds : InFlight("w1", e)}) + Cardinality(OrphansInFlight)
          <= MaxConcurrent("w1")
    /\ \A e \in EventIds : \A f \in OrphansInFlight :
          InFlight("w1", e) => RunningScope("w1", e) # OrphanScope(f)

-----------------------------------------------------------------------------
(* C40: PostgresLockBackend: once a task whose acquire(scope) returned True
   has called release(scope), and no other task holds or awaits the scope,
   the advisory lock is held by no database session, whichever pooled
   connections the two calls ran on, so that the next acquire succeeds; a
   released scope is not left locked until its connection drops. *)
C40_ReleaseUnlocks ==
    \A t \in LockTasks : \A k \in PgScopes :
        (/\ reply = ReleaseReply(t, k)
         /\ \A u \in LockTasks : caller[u].pc = "idle" /\ caller[u].has = {})
            => \A c \in PgSessions : pg[c][ScopeToLockId(ReplicaOf(t), k)] = 0

====
